---- MODULE Spec2Model ----
(***************************************************************************)
(* Model of the steed CASC installer (crates/steed-cli/src/install.rs),    *)
(* the shmem free-space ledger and idx buckets (crates/ngdp/src/casc) and  *)
(* the BLTE codec (crates/ngdp/src/blte).                                  *)
(*                                                                         *)
(* u32 values that can exceed 2^31-1 (hashes, checksums) are kept as four  *)
(* little-endian bytes; counts and offsets of the ledger stay below 2^31   *)
(* and are kept as integers.                                               *)
(***************************************************************************)
EXTENDS Integers, Sequences, FiniteSets, TLC

\* ------------------------------------------------------------------------
\* Bytes and 32-bit words (four little-endian bytes)
\* ------------------------------------------------------------------------

RECURSIVE BitXor(_, _, _)
BitXor(a, b, n) ==
    IF n = 0 THEN 0
    ELSE ((a + b) % 2) + 2 * BitXor(a \div 2, b \div 2, n - 1)

ByteXor(a, b) == BitXor(a, b, 8)

RECURSIVE Pow2(_)
Pow2(n) == IF n = 0 THEN 1 ELSE 2 * Pow2(n - 1)

\* u32 as <<b0, b1, b2, b3>>, b0 the least significant byte
WordOfInt(n) ==
    << n % 256, (n \div 256) % 256, (n \div 65536) % 256, (n \div 16777216) % 256 >>

WordOfBytes(b0, b1, b2, b3) == << b0, b1, b2, b3 >>

WordXor(x, y) == [i \in 1..4 |-> ByteXor(x[i], y[i])]

\* u32::wrapping_add
WrappingAdd(x, y) ==
    LET s1 == x[1] + y[1]
        s2 == x[2] + y[2] + (s1 \div 256)
        s3 == x[3] + y[3] + (s2 \div 256)
        s4 == x[4] + y[4] + (s3 \div 256)
    IN << s1 % 256, s2 % 256, s3 % 256, s4 % 256 >>

\* u32::wrapping_sub
WrappingSub(x, y) ==
    LET d1 == x[1] - y[1]
        c1 == IF d1 < 0 THEN 1 ELSE 0
        d2 == x[2] - y[2] - c1
        c2 == IF d2 < 0 THEN 1 ELSE 0
        d3 == x[3] - y[3] - c2
        c3 == IF d3 < 0 THEN 1 ELSE 0
        d4 == x[4] - y[4] - c3
    IN << (d1 + 256) % 256, (d2 + 256) % 256, (d3 + 256) % 256, (d4 + 256) % 256 >>

\* u32::rotate_left
RotateLeft(x, k) ==
    LET q == k \div 8
        r == k % 8
        src(i) == x[((i - 1 - q + 8) % 4) + 1]
        prv(i) == x[((i - 2 - q + 8) % 4) + 1]
    IN [i \in 1..4 |->
          ((src(i) * Pow2(r)) % 256) + (prv(i) \div Pow2(8 - r))]

\* ------------------------------------------------------------------------
\* lookup3 (crates/lookup3/src/lib.rs)
\* ------------------------------------------------------------------------

\* One line triple of mix on t = <<x, y, z>>:
\*   x -= z; x ^= z.rotate_left(k); z += y
\* returned as <<y, z, x>>, the roles the next triple of lines gives the words
mix_round(t, k) ==
    << t[2],
       WrappingAdd(t[3], t[2]),
       WordXor(WrappingSub(t[1], t[3]), RotateLeft(t[3], k)) >>

\* mix(a, b, c): the state is <<a, b, c>>
mix(s) ==
    mix_round(mix_round(mix_round(mix_round(mix_round(mix_round(s, 4), 6), 8), 16), 19), 4)

\* One line pair of final on t = <<x, y, w>>:
\*   x ^= y; x -= y.rotate_left(k)
\* returned as <<w, x, y>>, the roles the next pair of lines gives the words
final_round(t, k) ==
    << t[3],
       WrappingSub(WordXor(t[1], t[2]), RotateLeft(t[2], k)),
       t[2] >>

\* after the seven pairs the roles are <<a, c, b>>
final_out(t) == << t[1], t[3], t[2] >>

\* final(a, b, c)
final(s) ==
    final_out(final_round(final_round(final_round(final_round(final_round(final_round(
        final_round(<< s[3], s[2], s[1] >>, 14), 11), 25), 16), 4), 14), 24))

\* k[i] as u32 (1-based), 0 past the end: the tail adds only the bytes present
KeyByte(k, i) == IF i <= Len(k) THEN k[i] ELSE 0

KeyWord(k, i) ==
    WordOfBytes(KeyByte(k, i), KeyByte(k, i + 1), KeyByte(k, i + 2), KeyByte(k, i + 3))

RECURSIVE hashlittle2_loop(_, _)
hashlittle2_loop(k, s) ==
    IF Len(k) > 12
    THEN hashlittle2_loop(SubSeq(k, 13, Len(k)),
                          mix(<< WrappingAdd(s[1], KeyWord(k, 1)),
                                 WrappingAdd(s[2], KeyWord(k, 5)),
                                 WrappingAdd(s[3], KeyWord(k, 9)) >>))
    ELSE IF Len(k) >= 1
    THEN final(<< WrappingAdd(s[1], KeyWord(k, 1)),
                  WrappingAdd(s[2], KeyWord(k, 5)),
                  WrappingAdd(s[3], KeyWord(k, 9)) >>)
    ELSE s

\* a = b = c = 0xdeadbeef + length + *pc; c += *pb
hashlittle2_init(a, pb) == << a, a, WrappingAdd(a, pb) >>

\* *pc = c; *pb = b
hashlittle2_out(s) == << s[3], s[2] >>

\* hashlittle2 with pc and pb taken one for the other
hashlittle2_seeds_swapped(k, pc, pb) ==
    hashlittle2_out(hashlittle2_loop(k,
        hashlittle2_init(
            WrappingAdd(WrappingAdd(<< 239, 190, 173, 222 >>, WordOfInt(Len(k))), pb), pc)))

\* hashlittle2 with pc left out of the initial value
hashlittle2_ignoring_pc(k, pc, pb) ==
    hashlittle2_out(hashlittle2_loop(k,
        hashlittle2_init(WrappingAdd(<< 239, 190, 173, 222 >>, WordOfInt(Len(k))), pb)))

\* hashlittle2(k, pc, pb) -> (c, b)
hashlittle2(k, pc, pb) ==
    hashlittle2_out(hashlittle2_loop(k,
        hashlittle2_init(
            WrappingAdd(WrappingAdd(<< 239, 190, 173, 222 >>, WordOfInt(Len(k))), pc), pb)))

\* hashlittle(k, initval)
hashlittle(k, initval) == hashlittle2(k, initval, << 0, 0, 0, 0 >>)[1]

\* ------------------------------------------------------------------------
\* Keys (crates/ngdp/src/tact/mod.rs)
\* ------------------------------------------------------------------------

RECURSIVE Reverse(_)
Reverse(s) == IF s = << >> THEN << >> ELSE Reverse(Tail(s)) \o << Head(s) >>

\* EncodingKey::to_rev
to_rev(k) == Reverse(k)

\* EncodingKey::from_rev
from_rev(h) == Reverse(h)

\* EncodingKey::short: the first nine bytes
short(k) == SubSeq(k, 1, 9)

\* ------------------------------------------------------------------------
\* FileHeader (crates/ngdp/src/casc/mod.rs)
\* ------------------------------------------------------------------------

NUM_INDEXES == 16
MAX_DATA_SIZE == 1073741823       \* 0x3fffffff
FileHeader_SIZE == 30
CHECKSUM_A_OFF == 22
CHECKSUM_B_OFF == 26

\* TABLE_16C57A8, each entry as little-endian bytes
TABLE_16C57A8 ==
    << << 184, 150, 147, 4 >>,
       << 155, 42, 168, 114 >>,
       << 202, 108, 98, 238 >>,
       << 79, 117, 23, 153 >>,
       << 177, 64, 222, 21 >>,
       << 182, 169, 168, 245 >>,
       << 126, 172, 30, 66 >>,
       << 154, 92, 213, 169 >>,
       << 12, 212, 127, 49 >>,
       << 13, 248, 250, 4 >>,
       << 113, 233, 107, 61 >>,
       << 253, 60, 147, 82 >>,
       << 125, 75, 246, 39 >>,
       << 27, 193, 245, 198 >>,
       << 58, 126, 117, 213 >>,
       << 69, 135, 56, 108 >> >>

\* #[brw(little)] serialisation of FileHeader: hash, size, _unk, checksum_a, checksum_b
FileHeaderBytes(h) == h.hash \o h.size \o h.unk \o h.checksum_a \o h.checksum_b

\* FileHeader::read: the inverse layout
FileHeaderRead(buf) ==
    [hash |-> SubSeq(buf, 1, 16), size |-> SubSeq(buf, 17, 20), unk |-> SubSeq(buf, 21, 22),
     checksum_a |-> SubSeq(buf, 23, 26), checksum_b |-> SubSeq(buf, 27, 30)]

\* (offset & 0x3fffffff) | (archive_index & 3) << 30, as a word
AdjOffset(archive_index, offset) ==
    LET w == WordOfInt(offset % (MAX_DATA_SIZE + 1))
    IN << w[1], w[2], w[3], w[4] + 64 * (archive_index % 4) >>

RECURSIVE HashedHeader(_, _, _, _)
\* for i in 0..CHECKSUM_B_OFF { hashed_header[(i + offset) & 3] ^= data[i] }
HashedHeader(data, off4, i, acc) ==
    IF i >= CHECKSUM_B_OFF THEN acc
    ELSE LET lane == ((i + off4) % 4) + 1
         IN HashedHeader(data, off4, i + 1,
                         [acc EXCEPT ![lane] = ByteXor(acc[lane], data[i + 1])])

\* encoded_offset = TABLE_16C57A8[(offset + FileHeader::SIZE) & 0xf] ^ (offset + SIZE)
encoded_offset(enc0) == WordXor(TABLE_16C57A8[(enc0[1] % 16) + 1], enc0)

\* checksum_b[j] = hashed_header[i] ^ encoded_offset[i], i = (j + CHECKSUM_B_OFF + offset) & 3
checksum_b(hashed_header, enc, off4) ==
    [j \in 1..4 |->
        ByteXor(hashed_header[((j - 1 + CHECKSUM_B_OFF + off4) % 4) + 1],
                enc[((j - 1 + CHECKSUM_B_OFF + off4) % 4) + 1])]

checksums_at(data, adj) ==
    << hashlittle(SubSeq(data, 1, CHECKSUM_A_OFF), << 113, 233, 107, 61 >>),
       checksum_b(HashedHeader(data, adj[1] % 4, 0, << 0, 0, 0, 0 >>),
                  encoded_offset(WrappingAdd(adj, WordOfInt(FileHeader_SIZE))),
                  adj[1] % 4) >>

\* FileHeader::checksums(data, archive_index, offset) -> (checksum_a, checksum_b)
checksums(data, archive_index, offset) ==
    checksums_at(data, AdjOffset(archive_index, offset))

\* buf[CHECKSUM_A_OFF..][..4] <- checksum_a; buf[CHECKSUM_B_OFF..][..4] <- checksum_b
patch_checksums(buf, cs) == SubSeq(buf, 1, CHECKSUM_A_OFF) \o cs[1] \o cs[2]

\* FileHeader::write_to: the 30 bytes that reach the data file.  The checksums
\* are computed over the serialised header before either of them is patched in.
write_to(h, archive_index, offset) ==
    patch_checksums(FileHeaderBytes(h), checksums(FileHeaderBytes(h), archive_index, offset))

\* ------------------------------------------------------------------------
\* idx buckets (crates/ngdp/src/casc/idx.rs)
\* ------------------------------------------------------------------------

RECURSIVE XorAll(_)
XorAll(s) == IF s = << >> THEN 0 ELSE ByteXor(Head(s), XorAll(Tail(s)))

\* Indexes::get_bucket
get_bucket(k) ==
    LET i == XorAll(SubSeq(k, 1, 9))
    IN ByteXor(i % 16, i \div 16)

\* Indexes::default: sixteen empty BTreeMaps (a map is a function on its key set)
EmptyMap == [x \in {} |-> 0]

Indexes_default == [b \in 0..(NUM_INDEXES - 1) |-> EmptyMap]

\* Indexes::lookup: the entry under k.short() in bucket get_bucket(k), or None
\* Option: None is the empty sequence, Some(x) the one-element sequence
None == << >>

Some(x) == << x >>

lookup(indexes, k) ==
    LET m == indexes[get_bucket(k)]
    IN IF short(k) \in DOMAIN m THEN Some(m[short(k)]) ELSE None

\* an insert that keeps the entry already under the short key
insert_keeping_first(indexes, k, entry) ==
    LET b == get_bucket(k)
        m == indexes[b]
    IN [indexes EXCEPT ![b] =
          [sk \in (DOMAIN m) \cup {short(k)} |-> IF sk \in DOMAIN m THEN m[sk] ELSE entry]]

\* Indexes::insert: BTreeMap::insert replaces the entry under the short key
insert(indexes, k, entry) ==
    LET b == get_bucket(k)
        m == indexes[b]
    IN [indexes EXCEPT ![b] =
          [sk \in (DOMAIN m) \cup {short(k)} |-> IF sk = short(k) THEN entry ELSE m[sk]]]

\* Ord for [u8; 9]: lexicographic
RECURSIVE LexLess(_, _)
LexLess(a, b) ==
    IF a = << >> THEN b # << >>
    ELSE IF b = << >> THEN FALSE
    ELSE IF Head(a) # Head(b) THEN Head(a) < Head(b)
    ELSE LexLess(Tail(a), Tail(b))

RECURSIVE MapEntriesInOrder(_, _)
\* BTreeMap::iter: the values in ascending key order
MapEntriesInOrder(m, keys) ==
    IF keys = {} THEN << >>
    ELSE LET least == CHOOSE a \in keys : \A b \in keys \ {a} : LexLess(a, b)
         IN << m[least] >> \o MapEntriesInOrder(m, keys \ {least})

RECURSIVE iter_from(_, _)
iter_from(indexes, b) ==
    IF b >= NUM_INDEXES THEN << >>
    ELSE MapEntriesInOrder(indexes[b], DOMAIN indexes[b]) \o iter_from(indexes, b + 1)

\* Indexes::iter_all_entries (entries only): bucket by bucket, each in key order
iter_all_entries(indexes) == iter_from(indexes, 0)

\* ------------------------------------------------------------------------
\* shmem ledger (crates/ngdp/src/casc/shmem.rs)
\* ------------------------------------------------------------------------

UnusedBytes(missing, number, count, offset) ==
    [data_file_missing |-> missing, data_number |-> number, count |-> count, offset |-> offset]

\* Shmem::new: unused_bytes of (0..255)
Shmem_new_unused == [i \in 1..255 |-> UnusedBytes(1, i - 1, 0, 0)]

\* position of the first slot with count >= request, or data_file_missing == 1; 0 if none
RECURSIVE FindSlot(_, _, _)
FindSlot(unused, count, i) ==
    IF i > Len(unused) THEN 0
    ELSE IF unused[i].count >= count \/ unused[i].data_file_missing = 1 THEN i
    ELSE FindSlot(unused, count, i + 1)

RemoveAt(seq, i) == SubSeq(seq, 1, i - 1) \o SubSeq(seq, i + 1, Len(seq))

\* a new file that keeps all MAX_DATA_SIZE bytes after the request was cut from it
reserve_new_count_whole_file(slot, count) ==
    IF slot.data_file_missing = 0
    THEN slot.count - count
    ELSE IF count > MAX_DATA_SIZE THEN -1 ELSE MAX_DATA_SIZE

\* a slot whose start stays where it was after the request was cut from it
reserve_new_offset_unmoved(slot, count) == slot.offset

\* what is left of the slot: of an existing file its count less the request, of a
\* new file MAX_DATA_SIZE less the request (negative where checked_sub gives None)
reserve_new_count(slot, count) ==
    IF slot.data_file_missing = 0
    THEN slot.count - count
    ELSE MAX_DATA_SIZE - count

\* slot.offset.checked_add(count)
reserve_new_offset(slot, count) == slot.offset + count

\* a split that gives the slot up although the request is refused
reserve_split_dropping(unused, count, idx, slot) ==
    IF reserve_new_count(slot, count) < 0
    THEN [res |-> None, unused |-> RemoveAt(unused, idx)]
    ELSE [res |-> Some(UnusedBytes(slot.data_file_missing, slot.data_number,
                                   count, slot.offset)),
          unused |-> IF reserve_new_count(slot, count) = 0
                     THEN RemoveAt(unused, idx)
                     ELSE [unused EXCEPT ![idx] =
                              UnusedBytes(0, slot.data_number,
                                          reserve_new_count(slot, count),
                                          reserve_new_offset(slot, count))]]

\* the slot found at position idx is split: the request is returned, the rest stays
reserve_split(unused, count, idx, slot) ==
    IF reserve_new_count(slot, count) < 0 THEN [res |-> None, unused |-> unused]
    ELSE [res |-> Some(UnusedBytes(slot.data_file_missing, slot.data_number,
                                   count, slot.offset)),
          unused |-> IF reserve_new_count(slot, count) = 0
                     THEN RemoveAt(unused, idx)
                     ELSE [unused EXCEPT ![idx] =
                              UnusedBytes(0, slot.data_number,
                                          reserve_new_count(slot, count),
                                          reserve_new_offset(slot, count))]]

reserve_at(unused, count, idx) ==
    IF idx = 0 THEN [res |-> None, unused |-> unused]
    ELSE reserve_split(unused, count, idx, unused[idx])

\* Shmem::reserve_bytes(count) -> [res: None or Some(slot), unused: the ledger after]
\* (requests of the model stay below 2^31, so the u32 conversion and checked_add succeed)
reserve_bytes(unused, count) == reserve_at(unused, count, FindSlot(unused, count, 1))

\* sort_by_key(|e| (e.archive_index, e.offset)): stable
EntryKeyLeq(a, b) ==
    \/ a.archive_index < b.archive_index
    \/ a.archive_index = b.archive_index /\ a.offset <= b.offset

RECURSIVE InsertSorted(_, _)
InsertSorted(sorted, e) ==
    IF sorted = << >> THEN << e >>
    ELSE IF EntryKeyLeq(sorted[Len(sorted)], e) THEN Append(sorted, e)
    ELSE Append(InsertSorted(SubSeq(sorted, 1, Len(sorted) - 1), e), sorted[Len(sorted)])

RECURSIVE sort_by_key(_)
sort_by_key(entries) ==
    IF entries = << >> THEN << >>
    ELSE InsertSorted(sort_by_key(SubSeq(entries, 1, Len(entries) - 1)), entries[Len(entries)])

RECURSIVE rebuild_walk(_, _)
\* the loop of rebuild_unused_from_index over the sorted entries
rebuild_walk(all_entries, unused_bytes) ==
    IF all_entries = << >> THEN unused_bytes
    ELSE LET entry == Head(all_entries)
             n == Len(unused_bytes)
             last == IF n > 0 THEN unused_bytes[n]
                     ELSE UnusedBytes(1, entry.archive_index, 0, 0)
             popped == IF n > 0 THEN SubSeq(unused_bytes, 1, n - 1) ELSE << >>
             last_end == last.offset + last.count
         IN IF entry.archive_index = last.data_number /\ entry.offset = last_end
            THEN rebuild_walk(Tail(all_entries),
                              Append(popped, [last EXCEPT !.count = last.count + entry.size]))
            ELSE rebuild_walk(Tail(all_entries),
                              Append(popped, UnusedBytes(0, entry.archive_index,
                                                         entry.size, entry.offset)))

\* Shmem::rebuild_unused_from_index
rebuild_unused_from_index(indexes) ==
    LET walked == rebuild_walk(sort_by_key(iter_all_entries(indexes)), << >>)
        last_archive == IF walked = << >> THEN 0 ELSE walked[Len(walked)].data_number
    IN walked \o [i \in 1..(IF last_archive < 255 THEN 255 - last_archive ELSE 0) |->
                    UnusedBytes(1, last_archive + i - 1, 0, 0)]

\* ------------------------------------------------------------------------
\* BLTE encoder (crates/ngdp/src/blte/encode.rs)
\* ------------------------------------------------------------------------

\* the result of a call: status "Ok" with the bytes, or the way it failed
Res(status, bytes) == [status |-> status, bytes |-> bytes]

\* big-endian integers of the binrw layouts
U32BE(n) == << (n \div 16777216) % 256, (n \div 65536) % 256, (n \div 256) % 256, n % 256 >>

U24BE(n) == << (n \div 65536) % 256, (n \div 256) % 256, n % 256 >>

RECURSIVE FromBE(_)
FromBE(bytes) ==
    IF bytes = << >> THEN 0
    ELSE bytes[Len(bytes)] + 256 * FromBE(SubSeq(bytes, 1, Len(bytes) - 1))

\* block encoding modes: b'N', b'Z', b'F', b'E'
MODE_N == 78
MODE_Z == 90
MODE_F == 70
MODE_E == 69

RECURSIVE SumBytes(_)
SumBytes(data) == IF data = << >> THEN 0 ELSE Head(data) + SumBytes(Tail(data))

\* compute_md5: the md5 crate is outside the repository; a 16-byte digest of the
\* data (length, byte sum, byte xor) stands for it
compute_md5(data) ==
    << Len(data) % 256, SumBytes(data) % 256, XorAll(data) >> \o [i \in 1..13 |-> 0]

\* flate2 Compress with FlushCompress::Finish: zlib is outside the repository; a
\* header byte, the payload shifted by one, and a length trailer stand for the stream
zlib_compress(input) ==
    << 120 >> \o [i \in 1..Len(input) |-> (input[i] + 1) % 256] \o << Len(input) % 256 >>

\* the stream is one zlib_compress can have produced
zlib_valid(data) ==
    /\ Len(data) >= 2
    /\ data[1] = 120
    /\ data[Len(data)] = (Len(data) - 2) % 256

\* libdeflate_zlib_decompress / ZlibDecoder::read_to_end on a valid stream
zlib_decompress(data) == [i \in 1..(Len(data) - 2) |-> (data[i + 1] + 255) % 256]

\* salsa_crypt: rust_salsa20 is outside the repository; the buffer is xored with a
\* keystream fixed by the key, the iv and the position, as a stream cipher does
salsa_crypt(key, iv, buf) ==
    [i \in 1..Len(buf) |->
        ByteXor(buf[i], (key[1] + 3 * iv[1] + 5 * iv[2] + 7 * iv[3] + 11 * iv[4] + 13 * i) % 256)]

\* TactKeys::get_key: keys is a function from 8-byte key names to 16-byte keys
get_key(keys, key_name) == IF key_name \in DOMAIN keys THEN Some(keys[key_name]) ELSE None

\* full_iv[0..4] = iv; full_iv[i] ^= index.to_le_bytes()[i] for i in 0..4
full_iv(iv, index) ==
    [i \in 1..8 |-> IF i <= 4 THEN ByteXor(iv[i], WordOfInt(index)[i]) ELSE 0]

\* repr::EncryptHeader written: key_name_length, key_name, iv_length, iv, type_
EncryptHeaderBytes(key_name, iv) == << 8 >> \o key_name \o << 4 >> \o iv \o << 83 >>

\* process_zip: b'Z' and the compressed input
process_zip(input) == << MODE_Z >> \o zlib_compress(input)

\* process_encrypt once the key is found and the inner spec is encoded
encrypt_inner(key, v, inner, block_index) ==
    IF inner.status # "Ok" THEN inner
    ELSE Res("Ok", << MODE_E >> \o EncryptHeaderBytes(v.key, v.iv)
                   \o salsa_crypt(key, full_iv(v.iv, block_index), inner.bytes))

RECURSIVE process_inner(_, _, _, _)
\* process_inner -> Res; process_encrypt is its Encrypted arm
process_inner(keys, espec, input, block_index) ==
    IF espec.kind = "Raw" THEN Res("Ok", << MODE_N >> \o input)
    ELSE IF espec.kind = "Zip" THEN Res("Ok", process_zip(input))
    ELSE IF espec.kind = "Encrypted"
    THEN IF get_key(keys, espec.key) = None THEN Res("MissingEncryptionKey", << >>)
         ELSE encrypt_inner(get_key(keys, espec.key)[1], espec,
                            process_inner(keys, espec.inner, input, block_index), block_index)
    ELSE Res("panic", << >>)      \* Nested BLTE blocks not supported

\* repr::ChunkInfo
ChunkInfo(compressed_size, decompressed_size, checksum) ==
    [compressed_size |-> compressed_size, decompressed_size |-> decompressed_size,
     checksum |-> checksum]

\* the rest of process_chunk: the encoded chunk goes to buf, its ChunkInfo to the header
push_chunk(st, input, inner) ==
    IF inner.status # "Ok" THEN [status |-> inner.status, st |-> st]
    ELSE [status |-> "Ok",
          st |-> [buf |-> st.buf \o inner.bytes,
                  chunks |-> Append(st.chunks,
                                    ChunkInfo(Len(inner.bytes), Len(input),
                                              compute_md5(inner.bytes)))]]

\* process_chunk, the closure of process_block; st is [buf, chunks]
process_chunk(keys, block, input, st) ==
    push_chunk(st, input, process_inner(keys, block.inner, input, Len(st.chunks)))

\* a block's outcome: what is left of the input, and buf and chunks after it
BlockRes(status, rest, st) == [status |-> status, rest |-> rest, st |-> st]

RECURSIVE chunked_loop(_, _, _, _, _)
RECURSIVE chunked_next(_, _, _, _, _)
\* BlockSize::Chunked { size, count }: at least one chunk of exactly size bytes
chunked_loop(keys, block, rest, st, num_chunks) ==
    IF block.size.size > Len(rest) THEN BlockRes("ChunkUnderflow", rest, st)
    ELSE chunked_next(keys, block, SubSeq(rest, block.size.size + 1, Len(rest)),
                      process_chunk(keys, block, SubSeq(rest, 1, block.size.size), st),
                      num_chunks + 1)

chunked_next(keys, block, rest, r, num_chunks) ==
    IF r.status # "Ok" THEN BlockRes(r.status, rest, r.st)
    ELSE IF num_chunks >= block.size.count THEN BlockRes("Ok", rest, r.st)
    ELSE chunked_loop(keys, block, rest, r.st, num_chunks)

Min(a, b) == IF a <= b THEN a ELSE b

RECURSIVE greedy_loop(_, _, _, _)
RECURSIVE greedy_next(_, _, _, _)
\* BlockSize::ChunkedGreedy { size }: chunks of up to size bytes while input is left
\* (with size 0 and input left the loop never ends)
greedy_loop(keys, block, rest, st) ==
    IF rest = << >> THEN BlockRes("Ok", rest, st)
    ELSE IF block.size.size = 0 THEN BlockRes("no return", rest, st)
    ELSE greedy_next(keys, block,
                     SubSeq(rest, Min(block.size.size, Len(rest)) + 1, Len(rest)),
                     process_chunk(keys, block,
                                   SubSeq(rest, 1, Min(block.size.size, Len(rest))), st))

greedy_next(keys, block, rest, r) ==
    IF r.status # "Ok" THEN BlockRes(r.status, rest, r.st)
    ELSE greedy_loop(keys, block, rest, r.st)

\* BlockSize::Greedy: one chunk with all the input that is left
greedy_block(rest, r) == BlockRes(r.status, IF r.status = "Ok" THEN << >> ELSE rest, r.st)

\* process_block -> BlockRes
process_block(keys, block, input, st) ==
    IF block.size.kind = "Chunked" THEN chunked_loop(keys, block, input, st, 0)
    ELSE IF block.size.kind = "ChunkedGreedy" THEN greedy_loop(keys, block, input, st)
    ELSE greedy_block(input, process_chunk(keys, block, input, st))

RECURSIVE fold_blocks(_, _, _)
\* v.blocks.iter().try_fold(input, process_block)
fold_blocks(keys, blocks, r) ==
    IF r.status # "Ok" \/ blocks = << >> THEN r
    ELSE fold_blocks(keys, Tail(blocks), process_block(keys, Head(blocks), r.rest, r.st))

\* the final block, then the check for leftover input
final_block(keys, block, r) ==
    IF r.status # "Ok" THEN r ELSE process_block(keys, block, r.rest, r.st)

leftover_check(r) ==
    IF r.status = "Ok" /\ r.rest # << >> THEN BlockRes("LeftoverData", r.rest, r.st) ELSE r

\* process_top: a single spec goes to buf with no chunk; Blocks block by block
top_single(input, inner) ==
    BlockRes(inner.status, input,
             [buf |-> IF inner.status = "Ok" THEN inner.bytes ELSE << >>, chunks |-> << >>])

process_top(keys, espec, input) ==
    IF espec.kind = "Blocks"
    THEN leftover_check(
             final_block(keys, espec.final,
                         fold_blocks(keys, espec.blocks,
                                     BlockRes("Ok", input, [buf |-> << >>, chunks |-> << >>]))))
    ELSE top_single(input, process_inner(keys, espec, input, 0))

\* header_size = 0 without chunks, else 4 + 1 + 3 + 4 + 24 * chunks.len()
header_size_of(chunks) == IF chunks = << >> THEN 0 ELSE 4 + 1 + 3 + 4 + 24 * Len(chunks)

RECURSIVE ChunkInfosBytes(_)
\* Vec<ChunkInfo> written: compressed_size, decompressed_size, checksum of each
ChunkInfosBytes(chunks) ==
    IF chunks = << >> THEN << >>
    ELSE U32BE(Head(chunks).compressed_size) \o U32BE(Head(chunks).decompressed_size)
         \o Head(chunks).checksum \o ChunkInfosBytes(Tail(chunks))

\* repr::BLTEHeader written: magic, header_size, flags and chunk_count when
\* header_size > 0, the chunks
BLTEHeaderBytes(chunks) ==
    << 66, 76, 84, 69 >> \o U32BE(header_size_of(chunks))
    \o (IF header_size_of(chunks) > 0 THEN << 15 >> \o U24BE(Len(chunks)) ELSE << >>)
    \o ChunkInfosBytes(chunks)

encode_finish(r) ==
    IF r.status # "Ok" THEN Res(r.status, << >>)
    ELSE Res("Ok", BLTEHeaderBytes(r.st.chunks) \o r.st.buf)

\* encode_blte(keys, espec, input) -> Res
encode_blte(keys, espec, input) == encode_finish(process_top(keys, espec, input))

\* ------------------------------------------------------------------------
\* BLTE decoder (crates/ngdp/src/blte/decode.rs)
\* ------------------------------------------------------------------------

\* the header read: its chunks and the cursor position after it
HeaderRes(status, chunks, pos) == [status |-> status, chunks |-> chunks, pos |-> pos]

\* #[br(count = chunk_count)] chunks: n ChunkInfo of 24 bytes from position 12
read_chunks(content, n) ==
    IF Len(content) < 12 + 24 * n THEN HeaderRes("Err", << >>, 0)
    ELSE HeaderRes("Ok",
                   [i \in 1..n |->
                       ChunkInfo(FromBE(SubSeq(content, 24 * i - 11, 24 * i - 8)),
                                 FromBE(SubSeq(content, 24 * i - 7, 24 * i - 4)),
                                 SubSeq(content, 24 * i - 3, 24 * i + 12))],
                   12 + 24 * n)

\* flags and chunk_count are there when header_size > 0
read_header_body(content, header_size) ==
    IF header_size = 0 THEN HeaderRes("Ok", << >>, 8)
    ELSE IF Len(content) < 12 THEN HeaderRes("Err", << >>, 0)
    ELSE read_chunks(content, FromBE(SubSeq(content, 10, 12)))

\* repr::BLTEHeader::read: magic b"BLTE", header_size, then the rest
BLTEHeader_read(content) ==
    IF Len(content) < 8 \/ SubSeq(content, 1, 4) # << 66, 76, 84, 69 >>
    THEN HeaderRes("Err", << >>, 0)
    ELSE read_header_body(content, FromBE(SubSeq(content, 5, 8)))

\* zero bytes for the bytes of the chunk as stored
dummy_data_compressed(chunk_info) == [i \in 1..chunk_info.compressed_size |-> 0]

\* out.extend((0..decompressed_size).map(|_| 0u8))
dummy_data(chunk_info) == [i \in 1..chunk_info.decompressed_size |-> 0]

\* handle_deflate_block: libdeflate when the size is known, else flate2; both are
\* unwrapped with expect
handle_deflate_block(data, chunk_info, out) ==
    IF ~zlib_valid(data) THEN Res("panic", out)
    ELSE IF /\ chunk_info.decompressed_size > 0
            /\ Len(zlib_decompress(data)) # chunk_info.decompressed_size
    THEN Res("panic", out)
    ELSE Res("Ok", out \o zlib_decompress(data))

RECURSIVE handle_data_block(_, _, _, _, _)
RECURSIVE handle_encrypted_block(_, _, _, _, _)
RECURSIVE decrypted_block(_, _, _, _, _)
\* handle_data_block -> Res with the output so far
handle_data_block(data, tact_keys, index, chunk_info, out) ==
    IF data = << >> THEN Res("Err", out)       \* Expected at least one byte for block
    ELSE IF Head(data) = MODE_N THEN Res("Ok", out \o Tail(data))
    ELSE IF Head(data) = MODE_Z THEN handle_deflate_block(Tail(data), chunk_info, out)
    ELSE IF Head(data) = MODE_F THEN Res("panic", out)             \* todo!
    ELSE IF Head(data) = MODE_E
    THEN handle_encrypted_block(Tail(data), tact_keys, index, chunk_info, out)
    ELSE Res("panic", out)                     \* Unknown encoding mode

\* handle_encrypted_block: EncryptHeader::read takes 15 bytes
handle_encrypted_block(data, tact_keys, index, chunk_info, out) ==
    IF Len(data) < 15 THEN Res("Err", out)
    ELSE IF data[1] # 8 \/ data[10] # 4 THEN Res("panic", out)
    ELSE IF get_key(tact_keys, SubSeq(data, 2, 9)) = None
    THEN Res("Ok", out \o dummy_data(chunk_info))
    ELSE IF data[15] # 83 THEN Res("Err", out)  \* Unhandled encryption mode
    ELSE decrypted_block(salsa_crypt(get_key(tact_keys, SubSeq(data, 2, 9))[1],
                                     full_iv(SubSeq(data, 11, 14), index),
                                     SubSeq(data, 16, Len(data))),
                         tact_keys, index, chunk_info, out)

\* match buf[0] after salsa_crypt
decrypted_block(buf, tact_keys, index, chunk_info, out) ==
    IF buf = << >> THEN Res("panic", out)       \* index out of bounds
    ELSE IF buf[1] \in {MODE_N, MODE_Z, MODE_F, MODE_E}
    THEN handle_data_block(buf, tact_keys, index,
                           [chunk_info EXCEPT !.compressed_size = Len(buf)], out)
    ELSE Res("Ok", out \o dummy_data(chunk_info))

RECURSIVE decode_chunks(_, _, _, _, _, _)
RECURSIVE decode_chunk(_, _, _, _, _, _, _)
RECURSIVE decode_after(_, _, _, _, _, _)
\* the loop of decode_blte over chunk_infos, position i (from 1); pos is the cursor
decode_chunks(tact_keys, content, pos, chunk_infos, i, out) ==
    IF i > Len(chunk_infos) THEN Res("Ok", out)
    ELSE IF pos + chunk_infos[i].compressed_size > Len(content)
    THEN Res("Err", << >>)                      \* read_exact
    ELSE decode_chunk(tact_keys, content, pos + chunk_infos[i].compressed_size,
                      chunk_infos, i, out,
                      SubSeq(content, pos + 1, pos + chunk_infos[i].compressed_size))

decode_chunk(tact_keys, content, pos, chunk_infos, i, out, data) ==
    IF compute_md5(data) # chunk_infos[i].checksum
    THEN Res("panic", << >>)                    \* blte chunk did not match checksum
    ELSE decode_after(tact_keys, content, pos, chunk_infos, i,
                      handle_data_block(data, tact_keys, i - 1, chunk_infos[i], out))

decode_after(tact_keys, content, pos, chunk_infos, i, r) ==
    IF r.status # "Ok" THEN Res(r.status, << >>)
    ELSE decode_chunks(tact_keys, content, pos, chunk_infos, i + 1, r.bytes)

\* without chunks in the header, one dummy chunk spans the rest of the content
dummy_chunk(rest) == << ChunkInfo(Len(rest), 0, compute_md5(rest)) >>

decode_body(tact_keys, content, header) ==
    IF header.status # "Ok" THEN Res("Err", << >>)
    ELSE decode_chunks(tact_keys, content, header.pos,
                       IF header.chunks # << >> THEN header.chunks
                       ELSE dummy_chunk(SubSeq(content, header.pos + 1, Len(content))),
                       1, << >>)

\* decode_blte(tact_keys, content) -> Res
decode_blte(tact_keys, content) == decode_body(tact_keys, content, BLTEHeader_read(content))

\* ------------------------------------------------------------------------
\* Installer sessions (crates/steed-cli/src/install.rs)
\* ------------------------------------------------------------------------

\* Bounds of the exploration
MaxSessions == 2       \* install() runs
MaxAttempts == 2       \* allocate_and_write calls, over all sessions
MaxFlushFailures == 1  \* failing CASCBuilder::write calls, over all sessions

\* Encoding keys of the download manifests: K1 and K2 share their nine-byte short key
\* (and so bucket 0), K3 lies in bucket 8, K4 in bucket 5
K1 == [i \in 1..16 |-> 17]
K2 == [i \in 1..16 |-> IF i <= 9 THEN 17 ELSE 34]
K3 == [i \in 1..16 |-> IF i = 1 THEN 42 ELSE 0]
K4 == [i \in 1..16 |-> IF i = 1 THEN 99 ELSE 0]
Keys == {K1, K2, K3, K4}

\* download::Entry.file_size of each key; K3 leaves 35 bytes of a data file, K4 with
\* its header is larger than a data file
file_size(k) ==
    IF k = K1 THEN 10
    ELSE IF k = K2 THEN 20
    ELSE IF k = K3 THEN MAX_DATA_SIZE - 65
    ELSE MAX_DATA_SIZE

\* the blob the CDN serves for a key, file_size(k) bytes: for K1 the container
\* "BLTE" 00 00 00 00 'N' 07, for K2 twenty bytes that are no container
cdn_blob(k) ==
    IF k = K1 THEN << 66, 76, 84, 69, 0, 0, 0, 0, MODE_N, 7 >>
    ELSE [i \in 1..20 |-> 0]

\* the tagged entries of the download manifest the CDN serves, one of these
Manifests == {{}, {K1}, {K3}, {K4}, {K1, K2}, {K1, K3}, {K1, K4}, {K1, K2, K3}, {K1, K3, K4}}

\* Content keys of the install manifest, in manifest order
CKeys == << "ckey1" >>

\* install_tags / download_tags of a fresh InstallState
DefaultTags == {"Windows", "x86_64", "enUS", "EU", "speech"}

\* Buckets at which Indexes::write is made to fail (it writes bucket 0 first), and
\* NUM_INDEXES for a failure writing shmem after all sixteen idx files
FlushFailPoints == {4, NUM_INDEXES}

\* How the body reaches copy_with_bar: a ranged part request, or a reader that ends
\* with the blob (a slice of a whole archive; a loose file read to its end)
FetchModes == {"parts", "archive"}

VARIABLES
    pc,              \* position of install(): idle, install_files, loop, reserved,
                     \* header_written, body_copied, error_flush, save_state, ended
    sessions,        \* install() runs started
    attempts,        \* allocate_and_write calls started
    flush_failures,  \* CASCBuilder::write calls that failed
    disk_shmem,      \* Data/data/shmem: None, or Some([index_versions, unused_bytes])
    disk_idx,        \* Data/data/NNXXXXXXXX.idx: <<bucket, version>> -> entries
    data,            \* writes to the data.NNN files, oldest first
    state_file,      \* .steed-install-state: None, or Some(InstallState)
    index_versions,  \* builder.shmem.index_versions
    unused_bytes,    \* builder.shmem.unused_bytes
    indexes,         \* builder.indexes
    index_changed,   \* builder.index_changed
    state,           \* the InstallState of the session
    cur,             \* the download entry in allocate_and_write: key, mode, slot
    hist,            \* history of the session: what was loaded, what happened
    blte,            \* one encode_blte / decode_blte call: its arguments and results
    call             \* one call of a function of the TACT tables: arguments and result

vars == << pc, sessions, attempts, flush_failures, disk_shmem, disk_idx, data, state_file,
           index_versions, unused_bytes, indexes, index_changed, state, cur, hist, blte,
           call >>

Buckets == 0..(NUM_INDEXES - 1)

NoCur == [key |-> << >>, mode |-> "none", slot |-> UnusedBytes(0, 0, 0, 0)]

NoHist ==
    [loaded_versions |-> [b \in Buckets |-> 0],  \* index_versions after load
     loaded_indexes  |-> Indexes_default,         \* indexes after load
     manifest        |-> {},                      \* keys of entries_with_tags(download_tags)
                                                  \* (the CDN serves one build throughout)
     plan_skip       |-> {},                      \* keys the download plan found in idx
     done            |-> {},                      \* keys allocate_and_write returned Ok for
     latest          |-> EmptyMap,                \* short key -> entry last given to insert
     prev_result     |-> "none",                  \* what the install() before returned
     before_entry    |-> None,                    \* lookup of cur.key when allocate_and_write began
     before_changed  |-> FALSE,                   \* index_changed of its bucket at that time
     added           |-> {},                      \* CKEYs added to installed_files
     inserted        |-> {},                      \* buckets that received an insert
     reserved        |-> << >>,                   \* slots returned by reserve_bytes
     failed_at       |-> "none",                  \* step at which allocate_and_write failed
     flushes         |-> 0,                       \* CASCBuilder::write calls of the session
     flush_ok        |-> FALSE,                   \* the last CASCBuilder::write returned Ok
     state_saved     |-> FALSE,                   \* the state file was written this session
     result          |-> "none"]                  \* what install() returned

\* no codec call yet
NoBlte ==
    [stage |-> "none", espec |-> [kind |-> "Raw"], input |-> << >>,
     encoded |-> [status |-> "none", bytes |-> << >>],
     decoded |-> [status |-> "none", bytes |-> << >>]]

\* no call yet
NoCall == [fn |-> "none"]

Init ==
    /\ pc = "idle"
    /\ sessions = 0
    /\ attempts = 0
    /\ flush_failures = 0
    /\ disk_shmem = None
    /\ disk_idx = EmptyMap
    /\ data = << >>
    /\ state_file = None
    /\ index_versions = [b \in Buckets |-> 0]
    /\ unused_bytes = << >>
    /\ indexes = Indexes_default
    /\ index_changed = [b \in Buckets |-> FALSE]
    /\ state = [install_tags |-> {}, download_tags |-> {}, installed_files |-> {}]
    /\ cur = NoCur
    /\ hist = NoHist
    /\ blte = NoBlte
    /\ call = NoCall

\* CASCBuilder::load succeeds when shmem and the sixteen idx files it names are there
LoadOk ==
    /\ disk_shmem # None
    /\ \A b \in Buckets : << b, disk_shmem[1].index_versions[b] >> \in DOMAIN disk_idx

\* install(), lines 46-84: CASCBuilder::load or ::new, rebuild_unused_from_index,
\* load_state or a fresh InstallState
StartSession ==
    /\ pc \in {"idle", "ended"}
    /\ sessions < MaxSessions
    /\ LET vers == IF LoadOk THEN disk_shmem[1].index_versions ELSE [b \in Buckets |-> 0]
           idxs == IF LoadOk THEN [b \in Buckets |-> disk_idx[<< b, vers[b] >>]]
                   ELSE Indexes_default
       IN /\ index_versions' = vers
          /\ indexes' = idxs
          /\ unused_bytes' = rebuild_unused_from_index(idxs)
          /\ hist' = [NoHist EXCEPT !.loaded_versions = vers, !.loaded_indexes = idxs,
                                    !.manifest = hist.manifest,
                                    !.prev_result = hist.result]
    /\ index_changed' = [b \in Buckets |-> FALSE]
    /\ state' = IF state_file # None THEN state_file[1]
                ELSE [install_tags |-> DefaultTags, download_tags |-> DefaultTags,
                      installed_files |-> {}]
    /\ cur' = NoCur
    /\ sessions' = sessions + 1
    /\ pc' = "install_files"
    /\ UNCHANGED << blte, call, attempts, flush_failures, disk_shmem, disk_idx, data, state_file >>

\* install_inner, lines 224-269: one file of the install manifest is installed
InstallFile ==
    /\ pc = "install_files"
    /\ \E i \in 1..Len(CKeys) :
         /\ CKeys[i] \notin state.installed_files
         /\ \A j \in 1..(i - 1) : CKeys[j] \in state.installed_files
         /\ state' = [state EXCEPT !.installed_files = @ \cup {CKeys[i]}]
         /\ hist' = [hist EXCEPT !.added = @ \cup {CKeys[i]}]
    /\ UNCHANGED << blte, call, pc, sessions, attempts, flush_failures, disk_shmem, disk_idx, data,
                    state_file, index_versions, unused_bytes, indexes, index_changed, cur >>

\* install_inner returns Err from one of its `?` outside allocate_and_write
\* (a failed request, a missing encoding entry, a failed file write)
InnerErr ==
    /\ pc \in {"install_files", "loop"}
    /\ pc' = "error_flush"
    /\ UNCHANGED << blte, call, sessions, attempts, flush_failures, disk_shmem, disk_idx, data, state_file,
                    index_versions, unused_bytes, indexes, index_changed, state, cur, hist >>

\* a download plan that skips nothing: what install_inner must not build
BuildPlan_skipping_nothing ==
    /\ pc = "install_files"
    /\ pc' = "loop"
    /\ \E manifest \in (IF sessions = 1 THEN Manifests ELSE {hist.manifest}) :
         hist' = [hist EXCEPT !.manifest = manifest, !.plan_skip = {}]
    /\ UNCHANGED << blte, call, sessions, attempts, flush_failures, disk_shmem, disk_idx, data, state_file,
                    index_versions, unused_bytes, indexes, index_changed, state, cur >>

\* install_inner, lines 272-301: the download manifest is fetched, and the download
\* plan skips those of its tagged entries that are found in idx
BuildPlan ==
    /\ pc = "install_files"
    /\ pc' = "loop"
    /\ \E manifest \in (IF sessions = 1 THEN Manifests ELSE {hist.manifest}) :
         hist' = [hist EXCEPT !.manifest = manifest,
                              !.plan_skip = {k \in manifest : lookup(indexes, k) # None}]
    /\ UNCHANGED << blte, call, sessions, attempts, flush_failures, disk_shmem, disk_idx, data, state_file,
                    index_versions, unused_bytes, indexes, index_changed, state, cur >>

\* idx::Entry
Entry(archive_index, offset, size) ==
    [archive_index |-> archive_index, offset |-> offset, size |-> size]

\* the map m with v under key x
Put(m, x, v) == [y \in (DOMAIN m) \cup {x} |-> IF y = x THEN v ELSE m[y]]

\* CASCBuilder::insert_in_index -> [indexes, index_changed]
insert_in_index(idxs, changed, k, entry) ==
    [indexes |-> insert(idxs, k, entry),
     index_changed |-> [changed EXCEPT ![get_bucket(k)] = TRUE]]

\* allocate_and_write, lines 322-327: total_size and reserve_bytes
Reserve ==
    /\ pc = "loop"
    /\ attempts < MaxAttempts
    /\ \E k \in hist.manifest \ hist.plan_skip, mode \in FetchModes :
         LET total_size == file_size(k) + FileHeader_SIZE
             r == reserve_bytes(unused_bytes, total_size)
         IN IF r.res = None
               THEN /\ pc' = "error_flush"
                    /\ cur' = [NoCur EXCEPT !.key = k, !.mode = mode]
                    /\ hist' = [hist EXCEPT !.failed_at = "reserve",
                                            !.before_entry = lookup(indexes, k),
                                            !.before_changed = index_changed[get_bucket(k)]]
                    /\ unused_bytes' = r.unused
               ELSE /\ pc' = "reserved"
                    /\ cur' = [key |-> k, mode |-> mode, slot |-> r.res[1]]
                    /\ unused_bytes' = r.unused
                    /\ hist' = [hist EXCEPT !.reserved = Append(@, r.res[1]),
                                            !.before_entry = lookup(indexes, k),
                                            !.before_changed = index_changed[get_bucket(k)]]
    /\ attempts' = attempts + 1
    /\ UNCHANGED << blte, call, sessions, flush_failures, disk_shmem, disk_idx, data, state_file,
                    index_versions, indexes, index_changed, state >>

\* File::metadata().len() of data.NNN: the furthest byte written so far
RECURSIVE FileLen(_, _)
FileLen(log, arch) ==
    IF log = << >> THEN 0
    ELSE LET w == log[Len(log)]
             rest == FileLen(SubSeq(log, 1, Len(log) - 1), arch)
             end == w.off + Len(w.hdr) + w.body
         IN IF w.arch = arch /\ end > rest THEN end ELSE rest

\* the FileHeader allocate_and_write builds, lines 342-348
NewFileHeader(k, total_size) ==
    [hash |-> to_rev(k), size |-> WordOfInt(total_size), unk |-> << 0, 0 >>,
     checksum_a |-> << 239, 190, 173, 222 >>,      \* 0xdeadbeef
     checksum_b |-> << 239, 190, 175, 222 >>]      \* 0xdeafbeef

\* allocate_and_write, lines 333-349: open data.NNN, seek, FileHeader::write_to
\* (the assert on the file length is part of the guard: it holds in every reachable state)
WriteHeader ==
    /\ pc = "reserved"
    /\ FileLen(data, cur.slot.data_number) >= cur.slot.offset
    /\ data' = Append(data,
                      [arch |-> cur.slot.data_number, off |-> cur.slot.offset,
                       hdr |-> write_to(NewFileHeader(cur.key, cur.slot.count),
                                        cur.slot.data_number, cur.slot.offset),
                       body |-> 0, key |-> cur.key])
    /\ pc' = "header_written"
    /\ UNCHANGED << blte, call, sessions, attempts, flush_failures, disk_shmem, disk_idx, state_file,
                    index_versions, unused_bytes, indexes, index_changed, state, cur, hist >>

\* a failing header write that has put the entry in idx all the same: the order of
\* steps allocate_and_write must not have
WriteHeaderErr_inserting ==
    /\ pc = "reserved"
    /\ pc' = "error_flush"
    /\ hist' = [hist EXCEPT !.failed_at = "header"]
    /\ LET r == insert_in_index(indexes, index_changed, cur.key,
                                Entry(cur.slot.data_number, cur.slot.offset, cur.slot.count))
       IN /\ indexes' = r.indexes
          /\ index_changed' = r.index_changed
    /\ UNCHANGED << blte, call, sessions, attempts, flush_failures, disk_shmem, disk_idx, data, state_file,
                    index_versions, unused_bytes, state, cur >>

\* opening the file or writing the header fails: allocate_and_write returns Err
WriteHeaderErr ==
    /\ pc = "reserved"
    /\ pc' = "error_flush"
    /\ hist' = [hist EXCEPT !.failed_at = "header"]
    /\ UNCHANGED << blte, call, sessions, attempts, flush_failures, disk_shmem, disk_idx, data, state_file,
                    index_versions, unused_bytes, indexes, index_changed, state, cur >>

\* bytes the reader yields: read_part asks for bytes=offset-(offset+size), an inclusive
\* range of size+1 bytes when the archive goes on, of size bytes at its end
BodyLens(mode, size) == IF mode = "parts" THEN {size, size + 1} ELSE {size}

SetBody(log, n) == [log EXCEPT ![Len(log)].body = n]

\* allocate_and_write, line 350: copy_with_bar copies the reader to its end
CopyBody ==
    /\ pc = "header_written"
    /\ \E n \in BodyLens(cur.mode, file_size(cur.key)) : data' = SetBody(data, n)
    /\ pc' = "body_copied"
    /\ UNCHANGED << blte, call, sessions, attempts, flush_failures, disk_shmem, disk_idx, state_file,
                    index_versions, unused_bytes, indexes, index_changed, state, cur, hist >>

\* the copy fails part-way: allocate_and_write returns Err
CopyBodyErr ==
    /\ pc = "header_written"
    /\ data' = SetBody(data, file_size(cur.key) \div 2)
    /\ pc' = "error_flush"
    /\ hist' = [hist EXCEPT !.failed_at = "body"]
    /\ UNCHANGED << blte, call, sessions, attempts, flush_failures, disk_shmem, disk_idx, state_file,
                    index_versions, unused_bytes, indexes, index_changed, state, cur >>

\* allocate_and_write, lines 352-362: insert_in_index, then Ok
InsertIndex ==
    /\ pc = "body_copied"
    /\ LET r == insert_in_index(indexes, index_changed, cur.key,
                                Entry(cur.slot.data_number, cur.slot.offset, cur.slot.count))
       IN /\ indexes' = r.indexes
          /\ index_changed' = r.index_changed
    /\ hist' = [hist EXCEPT !.inserted = @ \cup {get_bucket(cur.key)},
                            !.done = @ \cup {cur.key},
                            !.latest = Put(@, short(cur.key),
                                           Entry(cur.slot.data_number, cur.slot.offset,
                                                 cur.slot.count))]
    /\ cur' = NoCur
    /\ pc' = "loop"
    /\ UNCHANGED << blte, call, sessions, attempts, flush_failures, disk_shmem, disk_idx, data, state_file,
                    index_versions, unused_bytes, state >>

\* CASCBuilder::write, lines 536-541: the version of every changed bucket goes up
bump_versions(versions, changed) ==
    [b \in Buckets |-> IF changed[b] THEN versions[b] + 1 ELSE versions[b]]

\* Indexes::write up to (not including) bucket upto: one file per bucket, named by
\* bucket and version (Index::write asserts offset <= 0x3fffffff and archive <= 0x3ff,
\* which every entry of the model meets, so parse gives back what was written)
Indexes_write(files, idxs, versions, upto) ==
    LET names == {<< b, versions[b] >> : b \in {x \in Buckets : x < upto}}
    IN [n \in (DOMAIN files) \cup names |-> IF n \in names THEN idxs[n[1]] ELSE files[n]]

\* CASCBuilder::write returning Ok: idx files, then shmem
FlushOk ==
    LET versions == bump_versions(index_versions, index_changed)
    IN /\ index_versions' = versions
       /\ disk_idx' = Indexes_write(disk_idx, indexes, versions, NUM_INDEXES)
       /\ disk_shmem' = Some([index_versions |-> versions, unused_bytes |-> unused_bytes])
       /\ UNCHANGED flush_failures

\* a failing CASCBuilder::write that has written shmem all the same: the order of
\* writes CASCBuilder::write must not have
FlushErr_writing_shmem ==
    LET versions == bump_versions(index_versions, index_changed)
    IN /\ flush_failures < MaxFlushFailures
       /\ index_versions' = versions
       /\ \E k \in FlushFailPoints :
            disk_idx' = Indexes_write(disk_idx, indexes, versions, k)
       /\ flush_failures' = flush_failures + 1
       /\ disk_shmem' = Some([index_versions |-> versions, unused_bytes |-> unused_bytes])

\* CASCBuilder::write returning Err: the write of idx file k fails (k < 16), or the
\* write of shmem (k = 16); what was written before stays
FlushErr ==
    LET versions == bump_versions(index_versions, index_changed)
    IN /\ flush_failures < MaxFlushFailures
       /\ index_versions' = versions
       /\ \E k \in FlushFailPoints :
            disk_idx' = Indexes_write(disk_idx, indexes, versions, k)
       /\ flush_failures' = flush_failures + 1
       /\ UNCHANGED disk_shmem

\* install_inner, lines 370-432: both loops have gone through the download plan
PlanDone == (hist.manifest \ hist.plan_skip) \subseteq hist.done

\* install_inner, lines 434-439: builder.write()? then Ok(()); install returns Ok
FinalFlushOk ==
    /\ pc = "loop"
    /\ PlanDone
    /\ FlushOk
    /\ pc' = "ended"
    /\ hist' = [hist EXCEPT !.flushes = @ + 1, !.flush_ok = TRUE, !.result = "Ok"]
    /\ UNCHANGED << blte, call, sessions, attempts, data, state_file, unused_bytes, indexes,
                    index_changed, state, cur >>

\* install_inner, line 435: builder.write()? returns the Err
FinalFlushErr ==
    /\ pc = "loop"
    /\ PlanDone
    /\ FlushErr
    /\ pc' = "error_flush"
    /\ hist' = [hist EXCEPT !.flushes = @ + 1, !.flush_ok = FALSE]
    /\ UNCHANGED << blte, call, sessions, attempts, data, state_file, unused_bytes, indexes,
                    index_changed, state, cur >>

\* install, lines 89-93: on Err, builder.write()? succeeds
ErrorFlushOk ==
    /\ pc = "error_flush"
    /\ FlushOk
    /\ pc' = "save_state"
    /\ hist' = [hist EXCEPT !.flushes = @ + 1, !.flush_ok = TRUE]
    /\ UNCHANGED << blte, call, sessions, attempts, data, state_file, unused_bytes, indexes,
                    index_changed, state, cur >>

\* install, line 93: builder.write()? fails and install returns that Err
ErrorFlushErr ==
    /\ pc = "error_flush"
    /\ FlushErr
    /\ pc' = "ended"
    /\ hist' = [hist EXCEPT !.flushes = @ + 1, !.flush_ok = FALSE, !.result = "Err"]
    /\ UNCHANGED << blte, call, sessions, attempts, data, state_file, unused_bytes, indexes,
                    index_changed, state, cur >>

\* install, lines 95-99: the state file is written, install returns the first Err
SaveState ==
    /\ pc = "save_state"
    /\ state_file' = Some(state)
    /\ pc' = "ended"
    /\ hist' = [hist EXCEPT !.state_saved = TRUE, !.result = "Err"]
    /\ UNCHANGED << blte, call, sessions, attempts, flush_failures, disk_shmem, disk_idx, data,
                    index_versions, unused_bytes, indexes, index_changed, state, cur >>

\* install, lines 96-97: serialising or writing the state file fails
SaveStateErr ==
    /\ pc = "save_state"
    /\ pc' = "ended"
    /\ hist' = [hist EXCEPT !.result = "Err"]
    /\ UNCHANGED << blte, call, sessions, attempts, flush_failures, disk_shmem, disk_idx, data, state_file,
                    index_versions, unused_bytes, indexes, index_changed, state, cur >>

Next ==
    \/ StartSession
    \/ InstallFile
    \/ InnerErr
    \/ BuildPlan
    \/ Reserve
    \/ WriteHeader
    \/ WriteHeaderErr
    \/ CopyBody
    \/ CopyBodyErr
    \/ InsertIndex
    \/ FinalFlushOk
    \/ FinalFlushErr
    \/ ErrorFlushOk
    \/ ErrorFlushErr
    \/ SaveState
    \/ SaveStateErr

Spec == Init /\ [][Next]_vars

\* One run of install() on an empty directory
FirstSession == pc = "idle" /\ StartSession

NextOne ==
    \/ FirstSession
    \/ InstallFile
    \/ InnerErr
    \/ BuildPlan
    \/ Reserve
    \/ WriteHeader
    \/ WriteHeaderErr
    \/ CopyBody
    \/ CopyBodyErr
    \/ InsertIndex
    \/ FinalFlushOk
    \/ FinalFlushErr
    \/ ErrorFlushOk
    \/ ErrorFlushErr
    \/ SaveState
    \/ SaveStateErr

SpecOne == Init /\ [][NextOne]_vars

\* ------------------------------------------------------------------------
\* The ledger on its own: Shmem::new or a rebuild over an idx, then reserve_bytes
\* ------------------------------------------------------------------------

MaxReserves == 3       \* reserve_bytes calls after the ledger was set up

\* idx entries to rebuild from, each within a data file: two with a gap between
\* them, one that fills the gap, a whole data file, one in the last-but-one archive
PoolEntries ==
    << Entry(0, 0, 1000), Entry(0, 2000, 500), Entry(0, 1000, 1000),
       Entry(1, 0, MAX_DATA_SIZE), Entry(254, 100, 50) >>

\* a key of its own for each entry of the pool
PoolKey(i) == [j \in 1..16 |-> IF j = 1 THEN i ELSE 0]

RECURSIVE IndexOf(_)
\* the idx holding the entries of the pool at the positions in chosen
IndexOf(chosen) ==
    IF chosen = {} THEN Indexes_default
    ELSE LET i == CHOOSE x \in chosen : \A y \in chosen : x >= y
         IN insert(IndexOf(chosen \ {i}), PoolKey(i), PoolEntries[i])

\* requests: nothing, a small file, most of a data file, a whole one, one byte more
ReserveCounts == {0, 40, 1000, MAX_DATA_SIZE - 35, MAX_DATA_SIZE, MAX_DATA_SIZE + 1}

\* Shmem::new
ShNew ==
    /\ pc = "idle"
    /\ unused_bytes' = Shmem_new_unused
    /\ pc' = "sh_new"
    /\ UNCHANGED << blte, call, sessions, attempts, flush_failures, disk_shmem, disk_idx, data, state_file,
                    index_versions, indexes, index_changed, state, cur, hist >>

\* Shmem::rebuild_unused_from_index over one idx of the family
ShRebuild ==
    /\ pc = "idle"
    /\ \E chosen \in SUBSET (1..Len(PoolEntries)) :
         /\ indexes' = IndexOf(chosen)
         /\ unused_bytes' = rebuild_unused_from_index(IndexOf(chosen))
    /\ pc' = "sh_rebuilt"
    /\ UNCHANGED << blte, call, sessions, attempts, flush_failures, disk_shmem, disk_idx, data, state_file,
                    index_versions, index_changed, state, cur, hist >>

\* Shmem::reserve_bytes: the slots it returns are kept in hist.reserved
ShReserve ==
    /\ pc \in {"sh_new", "sh_rebuilt"}
    /\ attempts < MaxReserves
    /\ \E count \in ReserveCounts :
         LET r == reserve_bytes(unused_bytes, count)
         IN /\ unused_bytes' = r.unused
            /\ hist' = IF r.res = None THEN hist
                       ELSE [hist EXCEPT !.reserved = Append(@, r.res[1])]
    /\ attempts' = attempts + 1
    /\ UNCHANGED << blte, call, pc, sessions, flush_failures, disk_shmem, disk_idx, data, state_file,
                    index_versions, indexes, index_changed, state, cur >>

NextShmem ==
    \/ ShNew
    \/ ShRebuild
    \/ ShReserve

SpecShmem == Init /\ [][NextShmem]_vars

\* ------------------------------------------------------------------------
\* The idx buckets on their own: CASCBuilder::insert_in_index on Indexes::default
\* ------------------------------------------------------------------------

MaxInserts == 3        \* insert_in_index calls

\* keys to insert: K1 and K2 share their short key; K5 has another short key in
\* their bucket 0; K6 lies in bucket 15
K5 == [i \in 1..16 |-> 255]
K6 == [i \in 1..16 |-> IF i = 1 THEN 15 ELSE 0]
IdxKeys == {K1, K2, K3, K4, K5, K6}

\* entries to insert
IdxEntries == {Entry(0, 0, 1000), Entry(1, 2000, 500)}

\* CASCBuilder::insert_in_index(k, entry); the calls are kept in hist
IdxInsert ==
    /\ attempts < MaxInserts
    /\ \E k \in IdxKeys, entry \in IdxEntries :
         LET r == insert_in_index(indexes, index_changed, k, entry)
         IN /\ indexes' = r.indexes
            /\ index_changed' = r.index_changed
            /\ hist' = [hist EXCEPT !.inserted = @ \cup {get_bucket(k)},
                                    !.done = @ \cup {k},
                                    !.latest = Put(@, short(k), entry)]
    /\ attempts' = attempts + 1
    /\ UNCHANGED << blte, call, pc, sessions, flush_failures, disk_shmem, disk_idx, data, state_file,
                    index_versions, unused_bytes, state, cur >>

NextIdx == IdxInsert

SpecIdx == Init /\ [][NextIdx]_vars

\* ------------------------------------------------------------------------
\* The codec on its own: encode_blte, then decode_blte of what it returned
\* ------------------------------------------------------------------------

MaxInputLen == 2       \* bytes of input
MaxBlocks == 1         \* blocks before the final block of a Blocks spec

InputBytes == {7, 200}

Inputs == UNION {[1..n -> InputBytes] : n \in 0..MaxInputLen}

\* TactKeys holds KeyName1; KeyName2 is not in it
KeyName1 == [i \in 1..8 |-> 1]
KeyName2 == [i \in 1..8 |-> 2]
TactKeysModel == (KeyName1 :> [i \in 1..16 |-> 3 * i])

\* ESpec::Raw, ESpec::Zip, ESpec::Encrypted, ESpec::Blocks
Raw == [kind |-> "Raw"]
Zip == [kind |-> "Zip", level |-> 9, bits |-> 15]
Encrypted(key, iv, inner) == [kind |-> "Encrypted", key |-> key, iv |-> iv, inner |-> inner]
Blocks(blocks, final_) == [kind |-> "Blocks", blocks |-> blocks, final |-> final_]

\* espec::Block and espec::BlockSize
Block(size, inner) == [size |-> size, inner |-> inner]
Chunked(size, count) == [kind |-> "Chunked", size |-> size, count |-> count]
ChunkedGreedy(size) == [kind |-> "ChunkedGreedy", size |-> size, count |-> 0]
Greedy == [kind |-> "Greedy", size |-> 0, count |-> 0]

IV1 == << 9, 8, 7, 6 >>

\* specs a block can hold
InnerSpecs ==
    {Raw, Zip, Encrypted(KeyName1, IV1, Raw), Encrypted(KeyName1, IV1, Zip)}

BlockSizes ==
    {Chunked(size, count) : size \in 1..2, count \in 1..2}
    \cup {ChunkedGreedy(size) : size \in 0..2}
    \cup {Greedy}

BlockSet == {Block(size, inner) : size \in BlockSizes, inner \in InnerSpecs}

\* the specs given to encode_blte
ESpecs ==
    InnerSpecs
    \cup {Encrypted(KeyName2, IV1, Raw), Encrypted(KeyName1, IV1, Encrypted(KeyName1, IV1, Raw))}
    \cup {Blocks(blocks, final_) :
            blocks \in UNION {[1..n -> BlockSet] : n \in 0..MaxBlocks}, final_ \in BlockSet}

\* the installer's variables, which the codec leaves alone
installer_vars ==
    << pc, sessions, attempts, flush_failures, disk_shmem, disk_idx, data, state_file,
       index_versions, unused_bytes, indexes, index_changed, state, cur, hist >>

\* a spec and an input are chosen
BlteChoose ==
    /\ blte.stage = "none"
    /\ \E espec \in ESpecs, input \in Inputs :
         blte' = [blte EXCEPT !.stage = "chosen", !.espec = espec, !.input = input]
    /\ UNCHANGED << installer_vars, call >>

\* encode_blte(keys, espec, input)
BlteEncode ==
    /\ blte.stage = "chosen"
    /\ blte' = [blte EXCEPT !.stage = "encoded",
                            !.encoded = encode_blte(TactKeysModel, blte.espec, blte.input)]
    /\ UNCHANGED << installer_vars, call >>

\* decode_blte(keys, E) of an Ok(E)
BlteDecode ==
    /\ blte.stage = "encoded"
    /\ blte.encoded.status = "Ok"
    /\ blte' = [blte EXCEPT !.stage = "decoded",
                            !.decoded = decode_blte(TactKeysModel, blte.encoded.bytes)]
    /\ UNCHANGED << installer_vars, call >>

NextBlte ==
    \/ BlteChoose
    \/ BlteEncode
    \/ BlteDecode

SpecBlte == Init /\ [][NextBlte]_vars

\* ------------------------------------------------------------------------
\* Properties of the installer
\* ------------------------------------------------------------------------

\* the values of a sequence
Range(seq) == {seq[i] : i \in 1..Len(seq)}

\* the bytes [offset, offset+count) a run of the ledger offers meet the bytes
\* [offset, offset+size) of the same data file an idx entry refers to
RunOverlapsEntry(run, e) ==
    /\ run.data_number = e.archive_index
    /\ run.offset < e.offset + e.size
    /\ e.offset < run.offset + run.count

\* C1: while a session runs (after the startup rebuild, through every reserve_bytes
\* and idx insertion), no run of shmem.unused_bytes overlaps a byte range that an
\* idx entry refers to.
C1_FreeRunsAvoidIndex ==
    pc \notin {"idle", "ended"} =>
        \A i \in 1..Len(unused_bytes) :
            \A e \in Range(iter_all_entries(indexes)) :
                ~RunOverlapsEntry(unused_bytes[i], e)

\* the last byte (exclusive) a write of the log reached
WriteEnd(w) == w.off + Len(w.hdr) + w.body

WriteOverlapsEntry(w, e) ==
    /\ w.arch = e.archive_index
    /\ w.off < e.offset + e.size
    /\ e.offset < WriteEnd(w)

\* the entry e stored under short key s has its own FileHeader at (archive, offset),
\* and no later write touched [offset, offset+size)
EntryIntact(s, e) ==
    \E i \in 1..Len(data) :
        /\ data[i].arch = e.archive_index
        /\ data[i].off = e.offset
        /\ short(from_rev(FileHeaderRead(data[i].hdr).hash)) = s
        /\ FileHeaderRead(data[i].hdr).size = WordOfInt(e.size)
        /\ \A j \in (i + 1)..Len(data) : ~WriteOverlapsEntry(data[j], e)

\* C2: when a session has ended, after any number of sessions, every idx entry
\* points at the FileHeader written for it (reversed hash with the entry's short
\* key, total size equal to the entry's size) and no later commit has overwritten
\* a byte of its region.
C2_IndexPointsAtHeaders ==
    pc = "ended" =>
        \A b \in Buckets : \A s \in DOMAIN indexes[b] : EntryIntact(s, indexes[b][s])

\* C3: for every header the installer wrote, FileHeader::checksums over the 30
\* stored bytes with the same (archive_index, offset) gives the stored checksum_a
\* and checksum_b.
C3_StoredChecksumsVerify ==
    \A i \in 1..Len(data) :
        checksums(data[i].hdr, data[i].arch, data[i].off)
            = << FileHeaderRead(data[i].hdr).checksum_a, FileHeaderRead(data[i].hdr).checksum_b >>

\* an allocate_and_write call is under way, or has failed at the header or the body
AttemptOpen ==
    \/ pc \in {"reserved", "header_written", "body_copied"}
    \/ hist.failed_at \in {"header", "body"}

\* the entry under short key s of bucket b was inserted during this session
InsertedThisSession(b, s) ==
    \/ s \notin DOMAIN hist.loaded_indexes[b]
    \/ hist.loaded_indexes[b][s] # indexes[b][s]

\* a write of a whole header and a whole body stands in the log for entry e of key s
CompleteWrite(s, e) ==
    \E i \in 1..Len(data) :
        /\ data[i].arch = e.archive_index
        /\ data[i].off = e.offset
        /\ short(data[i].key) = s
        /\ Len(data[i].hdr) = FileHeader_SIZE
        /\ data[i].body >= e.size - FileHeader_SIZE

\* every idx entry of this session came after its header and its whole body, and
\* only inserts mark buckets dirty
InsertsFollowWrites ==
    /\ \A b \in Buckets : \A s \in DOMAIN indexes[b] :
          InsertedThisSession(b, s) =>
              /\ index_changed[b]
              /\ CompleteWrite(s, indexes[b][s])
    /\ \A b \in Buckets : index_changed[b] <=> b \in hist.inserted

\* C4 as stated: inserts follow the header and body writes, and after a failed
\* header write or body copy idx holds no entry for that EKEY and its bucket is
\* not dirty.
C4_FailedCommitLeavesNoEntry ==
    /\ InsertsFollowWrites
    /\ hist.failed_at \in {"header", "body"} =>
          /\ lookup(indexes, cur.key) = None
          /\ ~index_changed[get_bucket(cur.key)]

\* C4, amended: inserts follow the header and body writes, and from reserve_bytes
\* until the insert (and for good when the header write or the body copy fails)
\* the idx lookup of that EKEY and the dirty flag of its bucket are what they were
\* when the attempt began: nothing if the EKEY was not in idx, the earlier entry
\* if an earlier commit of the session put one there.
C4_FailedCommitLeavesIndexAsBefore ==
    /\ InsertsFollowWrites
    /\ AttemptOpen =>
          /\ lookup(indexes, cur.key) = hist.before_entry
          /\ index_changed[get_bucket(cur.key)] = hist.before_changed

\* a header write or body copy has failed for an EKEY that an earlier commit of the
\* same session had put in idx
C4_Witness ==
    /\ hist.failed_at \in {"header", "body"}
    /\ hist.before_entry # None
    /\ hist.before_changed

\* C9: when a session has ended, with Ok or with any Err, the state file has been
\* written in that session and holds the tag sets and every CKEY added to
\* installed_files in the session.
C9_StateFileWrittenAtEnd ==
    pc = "ended" =>
        /\ hist.state_saved
        /\ state_file # None
        /\ state_file[1].install_tags = state.install_tags
        /\ state_file[1].download_tags = state.download_tags
        /\ hist.added \subseteq state_file[1].installed_files

\* C10: when a session has ended after a successful flush, every bucket that
\* received an insert has its load-time version plus one, every other bucket its
\* load-time version.
C10_VersionsBumpedOnce ==
    (pc = "ended" /\ hist.flush_ok) =>
        \A b \in Buckets :
            index_versions[b] = hist.loaded_versions[b] + (IF b \in hist.inserted THEN 1 ELSE 0)

\* ------------------------------------------------------------------------
\* Properties of the ledger
\* ------------------------------------------------------------------------

\* the archives idx refers to
ReferencedArchives(idxs) == {e.archive_index : e \in Range(iter_all_entries(idxs))}

RECURSIVE SumCounts(_, _)
\* the bytes the runs of the ledger offer in data file arch
SumCounts(unused, arch) ==
    IF unused = << >> THEN 0
    ELSE (IF Head(unused).data_number = arch THEN Head(unused).count ELSE 0)
         + SumCounts(Tail(unused), arch)

RECURSIVE SumSizes(_, _)
\* the bytes the entries refer to in data file arch
SumSizes(entries, arch) ==
    IF entries = << >> THEN 0
    ELSE (IF Head(entries).archive_index = arch THEN Head(entries).size ELSE 0)
         + SumSizes(Tail(entries), arch)

\* the idx of the example: entries (0, 0, 1000) and (0, 2000, 500)
ExampleIndex == IndexOf({1, 2})

\* C6: right after rebuild_unused_from_index the ledger is the free space idx
\* implies: no run overlaps an entry, in each referenced data file the runs and the
\* (disjoint) entries add up to MAX_DATA_SIZE, the placeholders are those of the
\* archives idx does not refer to; for entries (0,0,1000) and (0,2000,500) it is
\* (arch 0, off 1000, count 1000), (arch 0, off 2500, count MAX-2500), then the
\* placeholders of archives 1, 2, ...
C6_RebuildGivesComplement ==
    (pc = "sh_rebuilt" /\ attempts = 0) =>
        /\ \A i \in 1..Len(unused_bytes) :
              /\ \A e \in Range(iter_all_entries(indexes)) :
                    ~RunOverlapsEntry(unused_bytes[i], e)
              /\ unused_bytes[i].data_file_missing = 1 =>
                    /\ unused_bytes[i].count = 0
                    /\ unused_bytes[i].offset = 0
                    /\ unused_bytes[i].data_number \notin ReferencedArchives(indexes)
        /\ \A a \in ReferencedArchives(indexes) :
              SumCounts(unused_bytes, a) + SumSizes(iter_all_entries(indexes), a)
                  = MAX_DATA_SIZE
        /\ indexes = ExampleIndex =>
              /\ Len(unused_bytes) = 256
              /\ unused_bytes[1] = UnusedBytes(0, 0, 1000, 1000)
              /\ unused_bytes[2] = UnusedBytes(0, 0, MAX_DATA_SIZE - 2500, 2500)
              /\ \A i \in 3..256 : unused_bytes[i] = UnusedBytes(1, i - 2, 0, 0)

\* two returned regions share a byte
RegionsOverlap(r1, r2) ==
    /\ r1.data_number = r2.data_number
    /\ r1.count > 0
    /\ r2.count > 0
    /\ r1.offset < r2.offset + r2.count
    /\ r2.offset < r1.offset + r1.count

\* the bytes a slot of the ledger can still hand out: [offset, offset+count) of an
\* existing file, everything from offset on of a new one
SlotCoversRegion(slot, r) ==
    /\ slot.data_number = r.data_number
    /\ r.count > 0
    /\ slot.offset < r.offset + r.count
    /\ r.offset < (IF slot.data_file_missing = 1 THEN MAX_DATA_SIZE
                   ELSE slot.offset + slot.count)

\* C7: from Shmem::new, after any reserve_bytes calls, the returned regions are
\* pairwise disjoint and no slot left in the ledger covers a byte of a returned
\* region.
C7_ReservedRegionsDisjoint ==
    pc = "sh_new" =>
        /\ \A i, j \in 1..Len(hist.reserved) :
              i # j => ~RegionsOverlap(hist.reserved[i], hist.reserved[j])
        /\ \A i \in 1..Len(unused_bytes) : \A j \in 1..Len(hist.reserved) :
              ~SlotCoversRegion(unused_bytes[i], hist.reserved[j])

\* three regions were cut from Shmem::new, two of them from the same data file, and
\* a slot was used up and removed
C7_Witness ==
    /\ pc = "sh_new"
    /\ Len(hist.reserved) >= 3
    /\ \E i, j \in 1..Len(hist.reserved) :
          /\ i # j
          /\ hist.reserved[i].data_number = hist.reserved[j].data_number
          /\ hist.reserved[i].count > 0
          /\ hist.reserved[j].count > 0
    /\ Len(unused_bytes) < 255

\* C8: from Shmem::new, or from a rebuild over idx entries that lie within a data
\* file, after any reserve_bytes calls every returned slot and every run left in
\* the ledger has offset + count <= MAX_DATA_SIZE.
C8_WithinMaxDataSize ==
    pc \in {"sh_new", "sh_rebuilt"} =>
        /\ \A j \in 1..Len(hist.reserved) :
              hist.reserved[j].offset + hist.reserved[j].count <= MAX_DATA_SIZE
        /\ \A i \in 1..Len(unused_bytes) :
              unused_bytes[i].offset + unused_bytes[i].count <= MAX_DATA_SIZE

\* after a rebuild a new file was split by a request: the returned slot and the run
\* left of the file end exactly at MAX_DATA_SIZE between them
C8_Witness ==
    /\ pc = "sh_rebuilt"
    /\ \E j \in 1..Len(hist.reserved) : \E i \in 1..Len(unused_bytes) :
          /\ hist.reserved[j].data_file_missing = 1
          /\ hist.reserved[j].count > 0
          /\ unused_bytes[i].data_number = hist.reserved[j].data_number
          /\ unused_bytes[i].data_file_missing = 0
          /\ unused_bytes[i].offset + unused_bytes[i].count = MAX_DATA_SIZE

\* ------------------------------------------------------------------------
\* Properties of the codec
\* ------------------------------------------------------------------------

\* C5: whenever encode_blte(keys, espec, input) returned Ok(E), for any of the
\* specs (Raw, Zip, Encrypted with a key of TactKeys, Blocks of these) and any
\* input, the empty one included, decode_blte(keys, E) returns Ok(input).
C5_BlteRoundTrip ==
    blte.stage = "decoded" => blte.decoded = Res("Ok", blte.input)

\* ------------------------------------------------------------------------
\* Properties of the flush, the download plan and the steps of an entry
\* ------------------------------------------------------------------------

\* the sixteen idx files named by versions are on disk and hold idxs
IdxFilesHold(files, idxs, versions) ==
    \A b \in Buckets :
        /\ << b, versions[b] >> \in DOMAIN files
        /\ files[<< b, versions[b] >>] = idxs[b]

\* C11: the shmem file changes only in a step of CASCBuilder::write at the end of the
\* session (reserve_bytes and every other step leave it alone), and only together
\* with all sixteen idx files of that flush; a flush that fails leaves it unchanged
C11_ShmemWrittenAfterIdx ==
    [][/\ (disk_shmem' # disk_shmem =>
              /\ pc \in {"loop", "error_flush"}
              /\ pc' \in {"ended", "save_state"}
              /\ IdxFilesHold(disk_idx', indexes, index_versions')
              /\ disk_shmem' = Some([index_versions |-> index_versions',
                                     unused_bytes |-> unused_bytes]))
       /\ (flush_failures' # flush_failures => disk_shmem' = disk_shmem)
       /\ (unused_bytes' # unused_bytes => disk_shmem' = disk_shmem)]_vars

\* a flush failed at an idx file after a reservation: idx files of buckets 0..3 are
\* written, bucket 4 is not, and shmem is not there
C11_Witness ==
    /\ hist.reserved # << >>
    /\ flush_failures = 1
    /\ hist.flushes = 1
    /\ ~hist.flush_ok
    /\ << 0, index_versions[0] >> \in DOMAIN disk_idx
    /\ << 4, index_versions[4] >> \notin DOMAIN disk_idx
    /\ disk_shmem = None

\* the entry of key k was in idx when the session loaded it (the plan is built from
\* the idx as loaded: nothing is inserted before)
PresentAtPlan(k) == k \in hist.manifest /\ lookup(hist.loaded_indexes, k) # None

\* C12: a manifest entry found in idx when the plan is built is never handed to
\* allocate_and_write (no reserve_bytes, no data-file write, no idx insert for it);
\* a session that follows one that returned Ok reserves nothing, inserts nothing,
\* writes no data file and marks no bucket dirty
C12_PresentEntriesSkipped ==
    [][/\ \A k \in Keys :
            (PresentAtPlan(k) /\ sessions' = sessions) =>
                /\ cur'.key # k
                /\ k \notin hist'.done
                /\ (data' # data => data'[Len(data')].key # k)
       /\ (hist'.prev_result = "Ok" =>
              /\ hist'.reserved = << >>
              /\ hist'.inserted = {}
              /\ indexes' = hist'.loaded_indexes
              /\ \A b \in Buckets : ~index_changed'[b]
              /\ (sessions' = sessions => data' = data))]_vars

\* the second session, after an Ok one that committed K1 and K2, found every entry
\* of the manifest in idx and returned Ok
C12_Witness ==
    /\ sessions = 2
    /\ hist.prev_result = "Ok"
    /\ hist.manifest = {K1, K2}
    /\ \A k \in hist.manifest : PresentAtPlan(k)
    /\ hist.plan_skip = hist.manifest
    /\ Len(data) = 2
    /\ hist.result = "Ok"

\* reserve_bytes of the total size of k's entry on the ledger as it is
ReserveFor(k) == reserve_bytes(unused_bytes, file_size(k) + FileHeader_SIZE)

\* C13: a reserve_bytes call that returns None leaves unused_bytes as it was; after it
\* the session writes no data file, inserts no idx entry and marks no bucket dirty,
\* its next step is CASCBuilder::write, which (when it returns Ok) leaves the idx
\* files and shmem of the in-memory state on disk, and install() does not return Ok
C13_NoSpaceStopsCleanly ==
    [][/\ \A k \in Keys : ReserveFor(k).res = None => ReserveFor(k).unused = unused_bytes
       /\ (hist'.failed_at = "reserve" /\ hist.failed_at # "reserve" /\ sessions' = sessions) =>
              /\ unused_bytes' = unused_bytes
              /\ pc' = "error_flush"
       /\ ((hist.failed_at = "reserve" \/ hist'.failed_at = "reserve") /\ sessions' = sessions) =>
              /\ data' = data
              /\ indexes' = indexes
              /\ index_changed' = index_changed
              /\ hist'.result # "Ok"
       /\ (hist.failed_at = "reserve" /\ pc = "error_flush") =>
              /\ hist'.flushes = hist.flushes + 1
              /\ hist'.flush_ok =>
                    /\ IdxFilesHold(disk_idx', indexes, index_versions')
                    /\ disk_shmem' = Some([index_versions |-> index_versions',
                                           unused_bytes |-> unused_bytes])]_vars

\* K1 was committed, the reservation for K4 was refused, the flush succeeded and the
\* session ended with the state file written
C13_Witness ==
    /\ hist.failed_at = "reserve"
    /\ cur.key = K4
    /\ K1 \in hist.done
    /\ ReserveFor(K4).res = None
    /\ hist.flush_ok
    /\ LoadOk
    /\ hist.state_saved
    /\ hist.result = "Err"

\* decode_blte accepts the blob fetched for k (the blobs of K3 and K4 are too large to
\* write out; they are containers)
FetchedIsBlte(k) ==
    k \in {K1, K2} => decode_blte(TactKeysModel, cdn_blob(k)).status = "Ok"

\* C14: an entry goes through NotStarted, Fetching, BlteValidated, HeaderWritten,
\* IndexInserted, Committed in this order; in particular a FileHeader is in a data
\* file, and an entry is in idx, only for a key whose fetched body is a BLTE container
C14_HeadersFollowValidation ==
    /\ \A i \in DOMAIN data : FetchedIsBlte(data[i].key)
    /\ \A k \in hist.done : FetchedIsBlte(k)

\* ------------------------------------------------------------------------
\* Properties of the idx buckets
\* ------------------------------------------------------------------------

\* (i & 0xF) ^ (i >> 4) with i = k[0] ^ k[1] ^ ... ^ k[8]
NibbleFold(i) == ByteXor(i % 16, i \div 16)

BucketOf(k) == NibbleFold(XorAll(SubSeq(k, 1, 9)))

\* C15: after any sequence of inserts, lookup of every inserted key returns the entry
\* last inserted under its short key; the entry is in bucket (i & 0xF) ^ (i >> 4),
\* which is in 0..15; no bucket holds anything else, and exactly the buckets that
\* received an insert are marked dirty
C15_LookupReturnsLatest ==
    /\ \A k \in hist.done :
          /\ BucketOf(k) \in 0..15
          /\ get_bucket(k) = BucketOf(k)
          /\ short(k) \in DOMAIN indexes[BucketOf(k)]
          /\ indexes[BucketOf(k)][short(k)] = hist.latest[short(k)]
          /\ lookup(indexes, k) = Some(hist.latest[short(k)])
    /\ \A b \in Buckets :
          /\ DOMAIN indexes[b] = {short(k) : k \in {x \in hist.done : BucketOf(x) = b}}
          /\ index_changed[b] <=> (\E k \in hist.done : BucketOf(k) = b)

\* K1, K2 (same short key) and K5 (same bucket, another short key) were inserted:
\* bucket 0 holds two entries, K1 and K2 look up the same one
C15_Witness ==
    /\ hist.done = {K1, K2, K5}
    /\ attempts = 3
    /\ DOMAIN indexes[0] = {short(K1), short(K5)}
    /\ lookup(indexes, K1) = lookup(indexes, K2)
    /\ lookup(indexes, K1) # lookup(indexes, K5)

\* ------------------------------------------------------------------------
\* The Encoding table (crates/ngdp/src/tact/encoding.rs)
\* ------------------------------------------------------------------------

\* <= of byte slices: lexicographic
LexLeq(a, b) == a = b \/ LexLess(a, b)

\* the scan of the page headers from header i on: page_idx is the page chosen so
\* far, prev_first_key its first key (pages are counted from 1 here)
RECURSIVE page_scan(_, _, _, _, _)
page_scan(page_headers, key, i, page_idx, prev_first_key) ==
    IF i > Len(page_headers) THEN page_idx
    ELSE IF LexLeq(prev_first_key, key) /\ LexLeq(key, page_headers[i].first_key)
         THEN page_idx
         ELSE page_scan(page_headers, key, i + 1, i, page_headers[i].first_key)

\* the page lookup_by_ckey and lookup_espec search; 0 where indexing the first header
\* panics (a table without pages)
page_of(page_headers, key) ==
    IF page_headers = << >> THEN 0
    ELSE page_scan(page_headers, key, 2, 1, page_headers[1].first_key)

\* Iterator::find over the entries of a page
RECURSIVE find_entry(_, _, _)
find_entry(entries, key, i) ==
    IF i > Len(entries) THEN None
    ELSE IF entries[i].key = key THEN Some(entries[i])
    ELSE find_entry(entries, key, i + 1)

\* Encoding::lookup_by_ckey -> "panic", None or Some(CEKeyEntry)
lookup_by_ckey(enc, ckey) ==
    IF page_of(enc.cekey_page_headers, ckey) = 0 THEN "panic"
    ELSE find_entry(enc.cekey_pages[page_of(enc.cekey_page_headers, ckey)], ckey, 1)

\* the espec string of a found entry
with_espec(enc, found) ==
    IF found = None THEN None
    ELSE Some(<< found[1], enc.especs[found[1].espec_index + 1] >>)

\* Encoding::lookup_espec -> "panic", None or Some((EKeySpecEntry, espec))
lookup_espec(enc, ekey) ==
    IF page_of(enc.ekey_spec_page_headers, ekey) = 0 THEN "panic"
    ELSE with_espec(enc, find_entry(enc.ekey_spec_pages[page_of(enc.ekey_spec_page_headers,
                                                                ekey)], ekey, 1))

MaxPages == 3          \* pages of a table
MaxEncKeys == 4        \* keys a table can hold

\* the sixteen-byte key that ends in n
EncKey(n) == [i \in 1..16 |-> IF i = 16 THEN n ELSE 0]

\* the numbers of a set in ascending order
RECURSIVE Ascending(_)
Ascending(set) ==
    IF set = {} THEN << >>
    ELSE LET least == CHOOSE x \in set : \A y \in set : x <= y
         IN << least >> \o Ascending(set \ {least})

\* ways to lay keys out in pages: page i holds the keys of layout[i], every key of a
\* page below every key of the next
Layouts ==
    UNION {{layout \in [1..n -> (SUBSET (1..MaxEncKeys)) \ {{}}] :
              \A i \in 1..(n - 1) : \A x \in layout[i], y \in layout[i + 1] : x < y} :
           n \in 1..MaxPages}

CEKeyEntry(n) == [key |-> EncKey(n), ekeys |-> << EncKey(n + 100) >>, file_size |-> n]

EKeySpecEntry(n) == [key |-> EncKey(n), espec_index |-> n % 2, file_size |-> n]

PageHeader(first) == [first_key |-> EncKey(first)]

\* the parsed Encoding of a layout: each header's first_key is the key of the first
\* entry of its page; the EKEY table has the same layout as the CKEY table
EncodingOf(layout) ==
    [especs |-> << "n", "z" >>,
     cekey_page_headers |-> [i \in DOMAIN layout |-> PageHeader(Ascending(layout[i])[1])],
     cekey_pages |-> [i \in DOMAIN layout |->
                        [j \in 1..Cardinality(layout[i]) |-> CEKeyEntry(Ascending(layout[i])[j])]],
     ekey_spec_page_headers |-> [i \in DOMAIN layout |-> PageHeader(Ascending(layout[i])[1])],
     ekey_spec_pages |-> [i \in DOMAIN layout |->
                            [j \in 1..Cardinality(layout[i]) |->
                                EKeySpecEntry(Ascending(layout[i])[j])]]]

\* keys asked for: below, among and above the keys of a table
QueryKeys == 0..(MaxEncKeys + 1)

\* a table and a key are chosen
EncChoose ==
    /\ call.fn = "none"
    /\ \E layout \in Layouts, n \in QueryKeys :
         call' = [fn |-> "encoding", layout |-> layout, enc |-> EncodingOf(layout),
                  key |-> EncKey(n), n |-> n]
    /\ UNCHANGED << installer_vars, blte >>

\* Encoding::lookup_by_ckey(key)
EncLookupByCkey ==
    /\ call.fn = "encoding"
    /\ call' = [call EXCEPT !.fn = "lookup_by_ckey"] @@
                ("result" :> lookup_by_ckey(call.enc, call.key))
    /\ UNCHANGED << installer_vars, blte >>

\* Encoding::lookup_espec(key)
EncLookupEspec ==
    /\ call.fn = "encoding"
    /\ call' = [call EXCEPT !.fn = "lookup_espec"] @@
                ("result" :> lookup_espec(call.enc, call.key))
    /\ UNCHANGED << installer_vars, blte >>

NextEnc ==
    \/ EncChoose
    \/ EncLookupByCkey
    \/ EncLookupEspec

SpecEnc == Init /\ [][NextEnc]_vars

\* the keys stored in the table of the call
StoredKeys == UNION {call.layout[i] : i \in DOMAIN call.layout}

\* C16: in a well-formed table lookup_by_ckey and lookup_espec find every stored key,
\* the first key of every page included, and give None for a key stored in no page
C16_StoredKeysFound ==
    /\ call.fn = "lookup_by_ckey" =>
          call.result = IF call.n \in StoredKeys THEN Some(CEKeyEntry(call.n)) ELSE None
    /\ call.fn = "lookup_espec" =>
          call.result = IF call.n \in StoredKeys
                        THEN Some(<< EKeySpecEntry(call.n),
                                     call.enc.especs[(call.n % 2) + 1] >>)
                        ELSE None

\* ------------------------------------------------------------------------
\* Tag selection in the Download and Install manifests
\* (crates/ngdp/src/tact/download.rs, crates/ngdp/src/tact/install.rs)
\* ------------------------------------------------------------------------

\* BitVec &= &BitVec of the same length
and_bits(a, b) == [i \in DOMAIN a |-> a[i] /\ b[i]]

\* the largest type_ of the tags, 0 without tags
RECURSIVE max_type(_, _)
max_type(tags, i) ==
    IF i > Len(tags) THEN 0
    ELSE IF tags[i].type_ > max_type(tags, i + 1) THEN tags[i].type_
    ELSE max_type(tags, i + 1)

\* a tag that narrows the bitmap when its name is not selected
apply_tag_unselected(tag, selected, category, bits) ==
    IF tag.type_ = category /\ tag.name \notin selected THEN and_bits(bits, tag.entries)
    ELSE bits

\* the body of the inner loop: a tag of the category whose name is selected narrows
\* the bitmap
apply_tag(tag, selected, category, bits) ==
    IF tag.type_ = category /\ tag.name \in selected THEN and_bits(bits, tag.entries)
    ELSE bits

\* for tag in self.tags.iter().filter(|t| t.type_ == category), from tag i on
RECURSIVE apply_category(_, _, _, _, _)
apply_category(tags, selected, category, i, bits) ==
    IF i > Len(tags) THEN bits
    ELSE apply_category(tags, selected, category, i + 1,
                        apply_tag(tags[i], selected, category, bits))

\* for category in 0..categories, from category on
RECURSIVE apply_categories(_, _, _, _, _)
apply_categories(tags, selected, category, categories, bits) ==
    IF category >= categories THEN bits
    ELSE apply_categories(tags, selected, category + 1, categories,
                          apply_category(tags, selected, category, 1, bits))

\* the items whose bit is set, in order, from item i on
RECURSIVE items_set(_, _, _)
items_set(items, bits, i) ==
    IF i > Len(items) THEN << >>
    ELSE IF bits[i] THEN << items[i] >> \o items_set(items, bits, i + 1)
    ELSE items_set(items, bits, i + 1)

\* DownloadManifest::entries_with_tags
entries_with_tags(manifest, tags) ==
    items_set(manifest.entries,
              apply_categories(manifest.tags, tags, 0, max_type(manifest.tags, 1),
                               [i \in DOMAIN manifest.entries |-> TRUE]),
              1)

\* InstallManifest::files_with_tags
files_with_tags(manifest, tags) ==
    items_set(manifest.files,
              apply_categories(manifest.tags, tags, 0, max_type(manifest.tags, 1),
                               [i \in DOMAIN manifest.files |-> TRUE]),
              1)

MaxTags == 2           \* tags of a manifest

\* names of the tags, by position in the manifest, and a name no tag has
TagNames == << "Windows", "enUS", "x86_64", "EU" >>
OtherName == "speech"

\* download::Entry and install::File of the manifests
ManifestEntries == << [key |-> K1, file_size |-> file_size(K1)],
                      [key |-> K2, file_size |-> file_size(K2)] >>
ManifestFiles == << [name |-> "a.exe", key |-> "ckey1", size |-> 5],
                    [name |-> "b.dll", key |-> "ckey2", size |-> 6] >>

TagTypes == 0..2

Bitmaps == [1..Len(ManifestEntries) -> BOOLEAN]

\* the tag lists of a manifest: tag i is named TagNames[i]; its type and bitmap vary
TagLists ==
    UNION {{[i \in 1..n |-> [name |-> TagNames[i], type_ |-> types[i], entries |-> maps[i]]] :
              types \in [1..n -> TagTypes], maps \in [1..n -> Bitmaps]} :
           n \in 0..MaxTags}

\* the names a selection is made of: those of the tags and one more
SelectableNames(tags) == {tags[i].name : i \in DOMAIN tags} \cup {OtherName}

\* DownloadManifest::entries_with_tags(selection) on a manifest of the family
EntriesWithTags ==
    /\ call.fn = "none"
    /\ \E tags \in TagLists :
         \E selection \in SUBSET SelectableNames(tags) :
           call' = [fn |-> "entries_with_tags", items |-> ManifestEntries, tags |-> tags,
                    selection |-> selection,
                    result |-> entries_with_tags([entries |-> ManifestEntries, tags |-> tags],
                                                 selection)]
    /\ UNCHANGED << installer_vars, blte >>

\* InstallManifest::files_with_tags(selection) on a manifest of the family
FilesWithTags ==
    /\ call.fn = "none"
    /\ \E tags \in TagLists :
         \E selection \in SUBSET SelectableNames(tags) :
           call' = [fn |-> "files_with_tags", items |-> ManifestFiles, tags |-> tags,
                    selection |-> selection,
                    result |-> files_with_tags([files |-> ManifestFiles, tags |-> tags],
                                               selection)]
    /\ UNCHANGED << installer_vars, blte >>

NextTags ==
    \/ EntriesWithTags
    \/ FilesWithTags

SpecTags == Init /\ [][NextTags]_vars

\* item i is in the bitmap of every tag whose name is selected
InEverySelected(tags, selection, i) ==
    \A j \in DOMAIN tags : tags[j].name \in selection => tags[j].entries[i]

\* the items of the call that are in the bitmap of every selected tag, in order
RECURSIVE ItemsInEverySelected(_)
ItemsInEverySelected(i) ==
    IF i > Len(call.items) THEN << >>
    ELSE (IF InEverySelected(call.tags, call.selection, i) THEN << call.items[i] >>
          ELSE << >>) \o ItemsInEverySelected(i + 1)

\* C17: entries_with_tags(S) and files_with_tags(S) return exactly the items whose bit
\* is set in the bitmap of every tag named in S, whatever the type of the tag, in
\* manifest order
C17_SelectedTagsIntersect ==
    call.fn \in {"entries_with_tags", "files_with_tags"} =>
        call.result = ItemsInEverySelected(1)

\* C18: entries_with_tags gives for a selection no entry that it does not give for a
\* part of the selection; for the empty selection it gives every entry; a name that
\* no tag has does not change what it gives
C18_SelectionAntitone ==
    call.fn = "entries_with_tags" =>
        LET manifest == [entries |-> call.items, tags |-> call.tags]
        IN /\ \A part \in SUBSET call.selection :
                Range(call.result) \subseteq Range(entries_with_tags(manifest, part))
           /\ entries_with_tags(manifest, {}) = call.items
           /\ entries_with_tags(manifest, call.selection \cup {OtherName}) = call.result
           /\ entries_with_tags(manifest, call.selection \ {OtherName}) = call.result

\* the tag Windows (type 0) holds the first entry only, enUS has type 1: selecting
\* Windows and a name no tag has gives the first entry alone
C18_Witness ==
    /\ call.fn = "entries_with_tags"
    /\ Len(call.tags) = 2
    /\ call.tags[1].type_ = 0
    /\ call.tags[2].type_ = 1
    /\ call.tags[1].entries = << TRUE, FALSE >>
    /\ call.selection = {"Windows", OtherName}
    /\ call.result = << call.items[1] >>

\* ------------------------------------------------------------------------
\* ESpec strings: Display for ESpec and Block, and FromStr for ESpec
\* A string is a sequence of one-character strings
\* ------------------------------------------------------------------------

\* ZipBits::Bits(bits) and ZipBits::MPQ
Bits(bits) == [mpq |-> FALSE, bits |-> bits]
MPQ == [mpq |-> TRUE, bits |-> 0]

\* Zip { level, bits }
ZipOf(level, bits) == [kind |-> "Zip", level |-> level, bits |-> bits]

DigitChars == << "0", "1", "2", "3", "4", "5", "6", "7", "8", "9" >>
HexUpper == DigitChars \o << "A", "B", "C", "D", "E", "F" >>
HexLower == DigitChars \o << "a", "b", "c", "d", "e", "f" >>

\* write!(f, "{}", v) of an unsigned integer
RECURSIVE fmt_uint(_)
fmt_uint(v) ==
    IF v < 10 THEN << DigitChars[v + 1] >>
    ELSE fmt_uint(v \div 10) \o << DigitChars[(v % 10) + 1] >>

\* hex::encode_upper and hex::encode: two digits a byte
hex_encode_with(digits, bytes) ==
    [i \in 1..(2 * Len(bytes)) |->
        IF i % 2 = 1 THEN digits[(bytes[(i + 1) \div 2] \div 16) + 1]
        ELSE digits[(bytes[i \div 2] % 16) + 1]]

hex_encode_upper(bytes) == hex_encode_with(HexUpper, bytes)

hex_encode(bytes) == hex_encode_with(HexLower, bytes)

\* the closure fmt_size of Display for Block
fmt_size(size) ==
    IF size % 1048576 = 0 THEN fmt_uint(size \div 1048576) \o << "M" >>
    ELSE IF size % 1024 = 0 THEN fmt_uint(size \div 1024) \o << "K" >>
    ELSE fmt_uint(size)

\* the match on self.size of Display for Block
fmt_block_size(size) ==
    IF size.kind = "Chunked"
    THEN fmt_size(size.size)
         \o (IF size.count > 1 THEN << "*" >> \o fmt_uint(size.count) ELSE << >>)
    ELSE IF size.kind = "ChunkedGreedy" THEN fmt_size(size.size) \o << "*" >>
    ELSE << "*" >>

\* Display for Zip inside Display for ESpec
fmt_zip(v) ==
    IF v.level = 9 /\ v.bits = Bits(15) THEN << "z" >>
    ELSE IF v.level # 9 /\ v.bits = Bits(15) THEN << "z", ":" >> \o fmt_uint(v.level)
    ELSE IF ~v.bits.mpq
         THEN << "z", ":", "{" >> \o fmt_uint(v.level) \o << "," >>
              \o fmt_uint(v.bits.bits) \o << "}" >>
         ELSE << "z", ":", "{" >> \o fmt_uint(v.level) \o << ",", "m", "p", "q", "}" >>

RECURSIVE ESpec_fmt(_)
RECURSIVE Block_fmt(_)
RECURSIVE fmt_blocks(_, _)

\* Display for ESpec
ESpec_fmt(s) ==
    IF s.kind = "Raw" THEN << "n" >>
    ELSE IF s.kind = "Zip" THEN fmt_zip(s)
    ELSE IF s.kind = "Encrypted"
         THEN << "e", ":", "{" >> \o hex_encode_upper(s.key) \o << "," >>
              \o hex_encode(s.iv) \o << "," >> \o ESpec_fmt(s.inner) \o << "}" >>
    ELSE IF s.blocks # << >>
         THEN << "b", ":", "{" >> \o fmt_blocks(s.blocks, 1)
              \o Block_fmt(s.final) \o << "}" >>
         ELSE << "b", ":" >> \o Block_fmt(s.final)

\* Display for Block
Block_fmt(block) == fmt_block_size(block.size) \o << "=" >> \o ESpec_fmt(block.inner)

\* for block in &v.blocks { write!(f, "{},", block) }
fmt_blocks(blocks, i) ==
    IF i > Len(blocks) THEN << >>
    ELSE Block_fmt(blocks[i]) \o << "," >> \o fmt_blocks(blocks, i + 1)

\* ToString::to_string
to_string(s) == ESpec_fmt(s)

\* a nom result: Ok((rest, val)) or Err(Error)
POk(val, rest) == [ok |-> TRUE, val |-> << val >>, rest |-> rest]
PErr == [ok |-> FALSE, val |-> << >>, rest |-> << >>]

\* the value of an Ok
PVal(r) == r.val[1]

\* an Ok with its value replaced (nom map)
PMap(r, val) == POk(val, r.rest)

\* nom char(c)
char(c, input) ==
    IF input # << >> /\ Head(input) = c THEN POk(c, Tail(input)) ELSE PErr

\* nom tag(t)
RECURSIVE tag(_, _)
tag(t, input) ==
    IF t = << >> THEN POk(t, input)
    ELSE IF input # << >> /\ Head(input) = Head(t) THEN tag(Tail(t), Tail(input))
    ELSE PErr

\* nom take(n)
take(n, input) ==
    IF Len(input) >= n THEN POk(SubSeq(input, 1, n), SubSeq(input, n + 1, Len(input)))
    ELSE PErr

IsDigit(c) == \E d \in 1..10 : DigitChars[d] = c

DigitValue(c) == (CHOOSE d \in 1..10 : DigitChars[d] = c) - 1

\* nom u64: one digit or more, as many as there are
RECURSIVE uint(_, _, _)
uint(input, value, seen) ==
    IF input # << >> /\ IsDigit(Head(input))
    THEN uint(Tail(input), (10 * value) + DigitValue(Head(input)), TRUE)
    ELSE IF seen THEN POk(value, input) ELSE PErr

u64(input) == uint(input, 0, FALSE)

\* nom u8: an error when the number does not fit
u8_of(r) == IF r.ok /\ PVal(r) <= 255 THEN r ELSE PErr

u8(input) == u8_of(u64(input))

\* char::to_digit(16)
IsHexDigit(c) == \E d \in 1..16 : HexUpper[d] = c \/ HexLower[d] = c

HexValue(c) == (CHOOSE d \in 1..16 : HexUpper[d] = c \/ HexLower[d] = c) - 1

\* u8::from_str_radix(two characters, 16): two digits, or a plus sign and a digit
from_str_radix_ok(s, i) ==
    \/ IsHexDigit(s[i]) /\ IsHexDigit(s[i + 1])
    \/ s[i] = "+" /\ IsHexDigit(s[i + 1])

from_str_radix(s, i) ==
    IF s[i] = "+" THEN HexValue(s[i + 1]) ELSE (16 * HexValue(s[i])) + HexValue(s[i + 1])

\* util::parse_hex_bytes::<N>
parse_hex_bytes(N, s) ==
    IF Len(s) # N * 2 THEN None
    ELSE IF \E i \in 1..N : ~from_str_radix_ok(s, (2 * i) - 1) THEN None
    ELSE Some([i \in 1..N |-> from_str_radix(s, (2 * i) - 1)])

\* map_opt(take(2 * N), parse_hex_bytes::<N>)
hex_field_of(N, r) ==
    IF ~r.ok THEN PErr
    ELSE IF parse_hex_bytes(N, PVal(r)) = None THEN PErr
    ELSE PMap(r, parse_hex_bytes(N, PVal(r))[1])

hex_field(N, input) == hex_field_of(N, take(2 * N, input))

\* parse_raw
parse_raw(input) == char("n", input)

\* alt((map(u8, ZipBits::Bits), value(ZipBits::MPQ, tag("mpq"))))
zip_bits_mpq(r) == IF r.ok THEN PMap(r, MPQ) ELSE PErr

zip_bits_of(r, input) ==
    IF r.ok THEN PMap(r, Bits(PVal(r))) ELSE zip_bits_mpq(tag(<< "m", "p", "q" >>, input))

zip_bits(input) == zip_bits_of(u8(input), input)

\* delimited(char('{'), separated_pair(u8, char(','), bits), char('}'))
zip_pair_close(level, bits, r) ==
    IF r.ok THEN PMap(r, << level, bits >>) ELSE PErr

zip_pair_bits(level, r) ==
    IF r.ok THEN zip_pair_close(level, PVal(r), char("}", r.rest)) ELSE PErr

zip_pair_comma(level, r) == IF r.ok THEN zip_pair_bits(level, zip_bits(r.rest)) ELSE PErr

zip_pair_level(r) ==
    IF r.ok THEN zip_pair_comma(PVal(r), char(",", r.rest)) ELSE PErr

zip_pair_open(r) == IF r.ok THEN zip_pair_level(u8(r.rest)) ELSE PErr

zip_pair(input) == zip_pair_open(char("{", input))

\* map(u8, |level| (level, ZipBits::Bits(15)))
zip_level_of(r) == IF r.ok THEN PMap(r, << PVal(r), Bits(15) >>) ELSE PErr

\* alt((the pair in braces, the level alone))
zip_args_of(r, input) == IF r.ok THEN r ELSE zip_level_of(u8(input))

zip_args(input) == zip_args_of(zip_pair(input), input)

\* preceded(char(':'), the arguments)
zip_colon(r) == IF r.ok THEN zip_args(r.rest) ELSE PErr

\* opt(...) and v.unwrap_or((9, ZipBits::Bits(15)))
zip_opt(r, input) ==
    IF r.ok THEN PMap(r, ZipOf(PVal(r)[1], PVal(r)[2]))
    ELSE POk(ZipOf(9, Bits(15)), input)

zip_after_z(r) ==
    IF r.ok THEN zip_opt(zip_colon(char(":", r.rest)), r.rest) ELSE PErr

\* parse_zip
parse_zip(input) == zip_after_z(char("z", input))

RECURSIVE parse_espec(_)
RECURSIVE parse_encrypted(_)
RECURSIVE parse_blocks(_)

\* block_size of parse_blocks: a number and an optional K or M
block_size_unit(size, k, m, rest) ==
    IF k.ok THEN POk(size * 1024, k.rest)
    ELSE IF m.ok THEN POk(size * 1048576, m.rest)
    ELSE POk(size, rest)

block_size_of(r) ==
    IF r.ok THEN block_size_unit(PVal(r), char("K", r.rest), char("M", r.rest), r.rest)
    ELSE PErr

block_size(input) == block_size_of(u64(input))

\* block_size_spec: tuple((block_size, opt(preceded(char('*'), u64))))
block_count_of(size, r, rest) ==
    IF r.ok THEN PMap(r, Chunked(size, PVal(r))) ELSE POk(Chunked(size, 1), rest)

block_count(size, star, rest) ==
    IF star.ok THEN block_count_of(size, u64(star.rest), rest)
    ELSE POk(Chunked(size, 1), rest)

block_size_spec_of(r) ==
    IF r.ok THEN block_count(PVal(r), char("*", r.rest), r.rest) ELSE PErr

block_size_spec(input) == block_size_spec_of(block_size(input))

\* final_size_spec: alt((Greedy, ChunkedGreedy, block_size_spec))
chunked_greedy_star(size, r) == IF r.ok THEN PMap(r, ChunkedGreedy(size)) ELSE PErr

chunked_greedy_of(r) ==
    IF r.ok THEN chunked_greedy_star(PVal(r), char("*", r.rest)) ELSE PErr

chunked_greedy(input) == chunked_greedy_of(block_size(input))

final_size_alt(greedy, cg, input) ==
    IF greedy.ok THEN PMap(greedy, Greedy)
    ELSE IF cg.ok THEN cg
    ELSE block_size_spec(input)

final_size_spec(input) == final_size_alt(char("*", input), chunked_greedy(input), input)

\* separated_pair(a size, char('='), parse_espec) mapped to a Block
subchunk_inner(size, r) == IF r.ok THEN PMap(r, Block(size, PVal(r))) ELSE PErr

subchunk_eq(size, r) == IF r.ok THEN subchunk_inner(size, parse_espec(r.rest)) ELSE PErr

subchunk_of(r) == IF r.ok THEN subchunk_eq(PVal(r), char("=", r.rest)) ELSE PErr

\* block_subchunk
block_subchunk(input) == subchunk_of(block_size_spec(input))

\* final_subchunk
final_subchunk(input) == subchunk_of(final_size_spec(input))

\* many0(terminated(block_subchunk, char(','))): stops at the first error and keeps
\* the input of before it
RECURSIVE many0_blocks(_, _)
many0_comma(r, comma, blocks, input) ==
    IF comma.ok THEN many0_blocks(blocks \o << PVal(r) >>, comma.rest)
    ELSE POk(blocks, input)

many0_block(r, blocks, input) ==
    IF r.ok THEN many0_comma(r, char(",", r.rest), blocks, input) ELSE POk(blocks, input)

many0_blocks(blocks, input) == many0_block(block_subchunk(input), blocks, input)

\* delimited(char('{'), tuple((many0(...), final_subchunk)), char('}'))
braced_close(blocks, final_, r) ==
    IF r.ok THEN PMap(r, Blocks(blocks, final_)) ELSE PErr

braced_final(blocks, r) ==
    IF r.ok THEN braced_close(blocks, PVal(r), char("}", r.rest)) ELSE PErr

braced_blocks(r) == braced_final(PVal(r), final_subchunk(r.rest))

braced(r) == IF r.ok THEN braced_blocks(many0_blocks(<< >>, r.rest)) ELSE PErr

\* alt((map(final_subchunk, |v| (vec![], v)), the blocks in braces))
blocks_alt(r, input) ==
    IF r.ok THEN PMap(r, Blocks(<< >>, PVal(r))) ELSE braced(char("{", input))

blocks_after_tag(r) == IF r.ok THEN blocks_alt(final_subchunk(r.rest), r.rest) ELSE PErr

\* parse_blocks
parse_blocks(input) == blocks_after_tag(tag(<< "b", ":" >>, input))

\* the tuple of parse_encrypted and the closing brace
encrypted_close(key, iv, inner, r) ==
    IF r.ok THEN PMap(r, Encrypted(key, iv, inner)) ELSE PErr

encrypted_inner(key, iv, r) ==
    IF r.ok THEN encrypted_close(key, iv, PVal(r), char("}", r.rest)) ELSE PErr

encrypted_comma2(key, iv, r) ==
    IF r.ok THEN encrypted_inner(key, iv, parse_espec(r.rest)) ELSE PErr

encrypted_iv(key, r) ==
    IF r.ok THEN encrypted_comma2(key, PVal(r), char(",", r.rest)) ELSE PErr

encrypted_comma1(key, r) == IF r.ok THEN encrypted_iv(key, hex_field(4, r.rest)) ELSE PErr

encrypted_key(r) == IF r.ok THEN encrypted_comma1(PVal(r), char(",", r.rest)) ELSE PErr

encrypted_open(r) == IF r.ok THEN encrypted_key(hex_field(8, r.rest)) ELSE PErr

encrypted_after_tag(r) == IF r.ok THEN encrypted_open(char("{", r.rest)) ELSE PErr

\* parse_encrypted
parse_encrypted(input) == encrypted_after_tag(tag(<< "e", ":" >>, input))

\* parse_espec: alt((parse_raw, parse_zip, parse_encrypted, parse_blocks))
espec_alt3(r, input) == IF r.ok THEN r ELSE parse_blocks(input)

espec_alt2(r, input) == IF r.ok THEN r ELSE espec_alt3(parse_encrypted(input), input)

espec_alt1(r, input) == IF r.ok THEN PMap(r, Raw) ELSE espec_alt2(parse_zip(input), input)

parse_espec(input) == espec_alt1(parse_raw(input), input)

\* FromStr for ESpec: complete(parse_espec)(s).finish().map(|(_rest, res)| res)
from_str_of(r) == IF r.ok THEN [status |-> "Ok", value |-> PVal(r)]
                  ELSE [status |-> "Err", value |-> Raw]

from_str(s) == from_str_of(parse_espec(s))

MaxNonFinal == 1       \* blocks before the final block of a printed Blocks spec

\* Zip values: the default, a level alone, a level with bits, a level with mpq
ZipSpecs == {ZipOf(level, bits) : level \in {6, 9}, bits \in {Bits(15), Bits(14), MPQ}}

\* a key name with hex digits above 9
KeyNameAB == << 171, 205, 239, 1, 35, 69, 103, 137 >>
IVab == << 171, 205, 0, 18 >>

\* what a block holds
PrintedInner == {Raw, ZipOf(9, Bits(15)), ZipOf(6, MPQ), Encrypted(KeyNameAB, IVab, Raw)}

\* sizes printed as bytes, K and M; counts
PrintedSizes == {5, 2048, 1048576}
PrintedCounts == 0..2

NonFinalSizes == {Chunked(size, count) : size \in PrintedSizes, count \in PrintedCounts}

FinalSizes ==
    NonFinalSizes \cup {ChunkedGreedy(size) : size \in PrintedSizes} \cup {Greedy}

NonFinalBlocks == {Block(size, inner) : size \in NonFinalSizes, inner \in PrintedInner}

FinalBlocks == {Block(size, inner) : size \in FinalSizes, inner \in PrintedInner}

BlocksSpecs ==
    {Blocks(blocks, final_) :
        blocks \in UNION {[1..n -> NonFinalBlocks] : n \in 0..MaxNonFinal},
        final_ \in FinalBlocks}

\* the ESpec values that are printed
PrintedSpecs ==
    {Raw} \cup ZipSpecs
    \cup {Encrypted(KeyNameAB, IVab, inner) :
            inner \in {Raw, Encrypted(KeyName1, IV1, Raw)} \cup ZipSpecs}
    \cup {Encrypted(KeyName1, IV1, Blocks(<< >>, Block(ChunkedGreedy(2048), Raw)))}
    \cup BlocksSpecs

\* an ESpec value is chosen
ESpecChoose ==
    /\ call.fn = "none"
    /\ \E s \in PrintedSpecs : call' = [fn |-> "espec", s |-> s]
    /\ UNCHANGED << installer_vars, blte >>

\* s.to_string()
ESpecToString ==
    /\ call.fn = "espec"
    /\ call' = [fn |-> "to_string", s |-> call.s, printed |-> to_string(call.s)]
    /\ UNCHANGED << installer_vars, blte >>

\* ESpec::from_str of the printed string
ESpecFromStr ==
    /\ call.fn = "to_string"
    /\ call' = [fn |-> "from_str", s |-> call.s, printed |-> call.printed,
                result |-> from_str(call.printed)]
    /\ UNCHANGED << installer_vars, blte >>

NextESpec ==
    \/ ESpecChoose
    \/ ESpecToString
    \/ ESpecFromStr

SpecESpec == Init /\ [][NextESpec]_vars

\* C19: parsing the string that Display prints for an ESpec value gives back a value
\* structurally equal to it
C19_DisplayParseRoundTrip ==
    call.fn = "from_str" =>
        /\ call.result.status = "Ok"
        /\ call.result.value = call.s

\* ------------------------------------------------------------------------
\* decode_blte on containers that are not well formed
\* ------------------------------------------------------------------------

MaxChunks == 2         \* chunks of a container given to decode_blte

\* what a chunk of the container is: a good N or Z chunk, an N chunk whose checksum
\* in the chunk table is wrong, a Z chunk that is no zlib stream with a positive
\* decompressed_size, a chunk whose mode byte is b'X'; an E chunk under a key name
\* that TactKeys does not hold, an E chunk under a known key whose decrypted payload
\* starts with b'X', and one whose payload is empty
ChunkKinds ==
    {"N", "Z", "checksum", "zlib", "mode", "E_unknown_key", "E_unreadable", "E_empty"}

MODE_X == 88

\* the bytes of the chunk at index (from 0) of a kind holding a payload
chunk_bytes(kind, payload, index) ==
    IF kind = "Z" THEN << MODE_Z >> \o zlib_compress(payload)
    ELSE IF kind = "zlib" THEN << MODE_Z, 0, 0 >> \o payload
    ELSE IF kind = "mode" THEN << MODE_X >> \o payload
    ELSE IF kind = "E_unknown_key"
    THEN << MODE_E >> \o EncryptHeaderBytes(KeyName2, IV1) \o << MODE_N >> \o payload
    ELSE IF kind = "E_unreadable"
    THEN << MODE_E >> \o EncryptHeaderBytes(KeyName1, IV1)
         \o salsa_crypt(TactKeysModel[KeyName1], full_iv(IV1, index),
                        << MODE_X >> \o payload)
    ELSE IF kind = "E_empty" THEN << MODE_E >> \o EncryptHeaderBytes(KeyName1, IV1)
    ELSE << MODE_N >> \o payload

\* a digest that is not the digest of the data
wrong_md5(bytes) == [compute_md5(bytes) EXCEPT ![1] = (@ + 1) % 256]

\* the ChunkInfo of the chunk table for a chunk
chunk_info_of(kind, payload, index) ==
    ChunkInfo(Len(chunk_bytes(kind, payload, index)),
              IF kind = "zlib" THEN Len(payload) + 1 ELSE Len(payload),
              IF kind = "checksum" THEN wrong_md5(chunk_bytes(kind, payload, index))
              ELSE compute_md5(chunk_bytes(kind, payload, index)))

RECURSIVE chunks_bytes(_, _, _)
chunks_bytes(kinds, payload, i) ==
    IF i > Len(kinds) THEN << >>
    ELSE chunk_bytes(kinds[i], payload, i - 1) \o chunks_bytes(kinds, payload, i + 1)

\* the container: header with the chunk table, then the chunks; a bad magic is b"CLTE"
container(magic_ok, kinds, payload) ==
    [BLTEHeaderBytes([i \in DOMAIN kinds |-> chunk_info_of(kinds[i], payload, i - 1)])
        EXCEPT ![1] = IF magic_ok THEN @ ELSE 67]
    \o chunks_bytes(kinds, payload, 1)

ChunkKindLists == UNION {[1..n -> ChunkKinds] : n \in 1..MaxChunks}

\* a container is chosen
DecodeChoose ==
    /\ call.fn = "none"
    /\ \E magic_ok \in BOOLEAN, kinds \in ChunkKindLists, payload \in Inputs :
         call' = [fn |-> "content", magic_ok |-> magic_ok, kinds |-> kinds,
                  payload |-> payload, content |-> container(magic_ok, kinds, payload)]
    /\ UNCHANGED << installer_vars, blte >>

\* decode_blte(tact_keys, content)
DecodeBlte ==
    /\ call.fn = "content"
    /\ call' = [call EXCEPT !.fn = "decode_blte"] @@
                ("result" :> decode_blte(TactKeysModel, call.content))
    /\ UNCHANGED << installer_vars, blte >>

NextDecode ==
    \/ DecodeChoose
    \/ DecodeBlte

SpecDecode == Init /\ [][NextDecode]_vars

\* the first thing wrong with the container of the call: its magic, or the kind of
\* its first chunk that is not a good one
RECURSIVE FirstFaultFrom(_)
FirstFaultFrom(i) ==
    IF i > Len(call.kinds) THEN "none"
    ELSE IF call.kinds[i] \in {"N", "Z"} THEN FirstFaultFrom(i + 1)
    ELSE call.kinds[i]

FirstFault == IF ~call.magic_ok THEN "magic" ELSE FirstFaultFrom(1)

\* C20: decode_blte returns an error value, and does not panic, when the magic is not
\* BLTE, when a chunk's MD5 differs from the checksum of the chunk table, when zlib
\* fails on a Z chunk with a positive expected length, and when a chunk's mode byte
\* is none of N, Z, E, F
C20_DecodeFailuresAreErrors ==
    (call.fn = "decode_blte" /\ FirstFault \in {"magic", "checksum", "zlib", "mode"}) =>
        call.result.status = "Err"

\* what decode_blte is to give for the chunks from i on: the payload of a good chunk,
\* as many zero bytes as the payload is long for an E chunk that cannot be read
RECURSIVE ExpectedOutput(_)
ExpectedOutput(i) ==
    IF i > Len(call.kinds) THEN << >>
    ELSE (IF call.kinds[i] \in {"N", "Z"} THEN call.payload
          ELSE [j \in 1..Len(call.payload) |-> 0]) \o ExpectedOutput(i + 1)

\* the chunks of the call are good ones and E chunks of the kinds given
OnlyKinds(kinds) == call.magic_ok /\ \A i \in DOMAIN call.kinds : call.kinds[i] \in kinds

\* C21 as stated: an E chunk whose key name TactKeys does not hold, or whose decrypted
\* payload does not start with N, Z, E or F (an empty payload among them), gives
\* decompressed_size zero bytes and no error, and the chunks after it are decoded
C21_UnreadableChunksGiveZeros ==
    (call.fn = "decode_blte"
     /\ OnlyKinds({"N", "Z", "E_unknown_key", "E_unreadable", "E_empty"})) =>
        call.result = Res("Ok", ExpectedOutput(1))

\* C21 amended: the same when the decrypted payload has a first byte
C21_UnreadableNonEmptyGiveZeros ==
    (call.fn = "decode_blte" /\ OnlyKinds({"N", "Z", "E_unknown_key", "E_unreadable"})) =>
        call.result = Res("Ok", ExpectedOutput(1))

\* an E chunk under an unknown key name, two bytes long, then a good N chunk
C21_Witness ==
    /\ call.fn = "decode_blte"
    /\ call.magic_ok
    /\ call.kinds = << "E_unknown_key", "N" >>
    /\ call.payload = << 7, 200 >>
    /\ call.result = Res("Ok", << 0, 0, 7, 200 >>)

\* an E chunk whose decrypted payload starts with b'X', then a good Z chunk
C21_WitnessUnreadable ==
    /\ call.fn = "decode_blte"
    /\ call.magic_ok
    /\ call.kinds = << "E_unreadable", "Z" >>
    /\ call.payload = << 7 >>
    /\ call.result = Res("Ok", << 0, 7 >>)

\* ------------------------------------------------------------------------
\* ByteReader (crates/binstream/src/lib.rs)
\* ------------------------------------------------------------------------

MaxSourceLen == 2      \* bytes of the source of a ByteReader
MaxOps == 3            \* operations on one ByteReader

\* a zero byte, b'A', and a byte that no UTF-8 text holds
SourceBytes == {0, 65, 255}

Sources == UNION {[1..n -> SourceBytes] : n \in 0..MaxSourceLen}

\* ByteReader { source, offset }; overflow_checks is the build's setting for
\* arithmetic overflow (a panic when on, wrapping when off); status is "panic" once an
\* operation has panicked
ByteReader_new(source, overflow_checks) ==
    [source |-> source, offset |-> 0, overflow_checks |-> overflow_checks, status |-> "Ok"]

\* what an operation gives: the reader after it, and whether it returned Some
OpRes(r, some) == [r |-> r, some |-> some]

Panicked(r) == OpRes([r EXCEPT !.status = "panic"], FALSE)

\* check_enough_bytes: source.len() - offset is a usize subtraction; when the offset is
\* past the end it panics under overflow checks and wraps to a huge number without
\* them
check_enough_bytes(r, count) ==
    IF r.offset > Len(r.source) THEN (IF r.overflow_checks THEN "panic" ELSE "Some")
    ELSE IF Len(r.source) - r.offset < count THEN "None"
    ELSE "Some"

\* take after check_enough_bytes: &self.source[start..end] panics past the end
take_checked(r, count, enough) ==
    IF enough = "panic" THEN Panicked(r)
    ELSE IF enough = "None" THEN OpRes(r, FALSE)
    ELSE IF r.offset + count > Len(r.source) THEN Panicked(r)
    ELSE OpRes([r EXCEPT !.offset = @ + count], TRUE)

\* ByteReader::take
ByteReader_take(r, count) == take_checked(r, count, check_enough_bytes(r, count))

\* ByteReader::take_n::<N>
take_n(r, N) == take_checked(r, N, check_enough_bytes(r, N))

\* ByteReader::uint::<O>(n), n in 1..8
uint_of(r, n) == ByteReader_take(r, n)

\* asciiz: the bytes before the first zero, all of them when there is none
RECURSIVE first_zero(_, _)
first_zero(val, i) ==
    IF i > Len(val) THEN Len(val)
    ELSE IF val[i] = 0 THEN i - 1
    ELSE first_zero(val, i + 1)

\* String::from_utf8_lossy(val).len(): an ASCII byte stays one byte, a byte that is
\* not valid UTF-8 becomes U+FFFD, three bytes long
RECURSIVE from_utf8_lossy_len(_)
from_utf8_lossy_len(val) ==
    IF val = << >> THEN 0
    ELSE (IF Head(val) < 128 THEN 1 ELSE 3) + from_utf8_lossy_len(Tail(val))

asciiz_len(val) == from_utf8_lossy_len(SubSeq(val, 1, first_zero(val, 1)))

\* string_zero after check_enough_bytes(1): &self.source[self.offset..] panics when
\* the offset is past the end; self.offset += val.len() + 1
string_zero_checked(r, enough) ==
    IF enough = "panic" THEN Panicked(r)
    ELSE IF enough = "None" THEN OpRes(r, FALSE)
    ELSE IF r.offset > Len(r.source) THEN Panicked(r)
    ELSE OpRes([r EXCEPT !.offset =
                   @ + asciiz_len(SubSeq(r.source, r.offset + 1, Len(r.source))) + 1],
               TRUE)

\* ByteReader::string_zero
string_zero(r) == string_zero_checked(r, check_enough_bytes(r, 1))

\* the types parsed: u8 (take_n::<1>) and StringZero (string_zero)
ParsedTypes == {"u8", "StringZero"}

\* ByteReader::parse::<T>
parse_T(T, r) == IF T = "u8" THEN take_n(r, 1) ELSE string_zero(r)

\* ByteReader::restore of the mark taken before an operation
restored(res, mark) ==
    IF res.r.status = "panic" THEN res ELSE OpRes([res.r EXCEPT !.offset = mark], res.some)

\* ByteReader::peek::<T>
peek(T, r) == restored(parse_T(T, r), r.offset)

\* ByteReader::cond::<T>
cond(T, r, c) == IF c THEN parse_T(T, r) ELSE OpRes(r, TRUE)

\* ByteReader::repeat::<T>: collect stops at the first None
RECURSIVE repeat(_, _, _)
repeat_next(T, res, count) ==
    IF res.r.status = "panic" \/ ~res.some THEN res ELSE repeat(T, res.r, count - 1)

repeat(T, r, count) ==
    IF count = 0 THEN OpRes(r, TRUE) ELSE repeat_next(T, parse_T(T, r), count)

\* ByteReader::many0::<T>
RECURSIVE many0(_, _)
many0_next(T, res, mark) ==
    IF res.r.status = "panic" THEN res
    ELSE IF ~res.some THEN OpRes([res.r EXCEPT !.offset = mark], TRUE)
    ELSE many0(T, res.r)

many0(T, r) == many0_next(T, parse_T(T, r), r.offset)

\* ByteReader::many1::<T>
RECURSIVE many1_fn(_, _, _)
many1_next(T, res, mark, is_empty) ==
    IF res.r.status = "panic" THEN res
    ELSE IF ~res.some /\ is_empty THEN OpRes(res.r, FALSE)
    ELSE IF ~res.some THEN OpRes([res.r EXCEPT !.offset = mark], TRUE)
    ELSE many1_fn(T, res.r, FALSE)

many1_fn(T, r, is_empty) == many1_next(T, parse_T(T, r), r.offset, is_empty)

many1(T, r) == many1_fn(T, r, TRUE)

\* the reader of the call can take one more operation
ReaderReady ==
    /\ call.fn = "ByteReader"
    /\ call.r.status = "Ok"
    /\ call.ops < MaxOps

\* the call after an operation op that gave res
AfterOp(op, res) ==
    [call EXCEPT !.r = res.r, !.ops = @ + 1, !.op = op, !.some = res.some,
                 !.before = call.r.offset]

\* ByteReader::new(source)
BrNew ==
    /\ call.fn = "none"
    /\ \E source \in Sources, overflow_checks \in BOOLEAN :
         call' = [fn |-> "ByteReader", r |-> ByteReader_new(source, overflow_checks),
                  marks |-> {}, ops |-> 0, op |-> "new", some |-> TRUE, before |-> 0]
    /\ UNCHANGED << installer_vars, blte >>

BrTake ==
    /\ ReaderReady
    /\ \E count \in 0..MaxSourceLen : call' = AfterOp("take", ByteReader_take(call.r, count))
    /\ UNCHANGED << installer_vars, blte >>

BrTakeN ==
    /\ ReaderReady
    /\ \E N \in 1..MaxSourceLen : call' = AfterOp("take_n", take_n(call.r, N))
    /\ UNCHANGED << installer_vars, blte >>

BrUint ==
    /\ ReaderReady
    /\ \E n \in 1..MaxSourceLen : call' = AfterOp("uint", uint_of(call.r, n))
    /\ UNCHANGED << installer_vars, blte >>

BrStringZero ==
    /\ ReaderReady
    /\ call' = AfterOp("string_zero", string_zero(call.r))
    /\ UNCHANGED << installer_vars, blte >>

\* ByteReader::mark
BrMark ==
    /\ ReaderReady
    /\ call' = [AfterOp("mark", OpRes(call.r, TRUE)) EXCEPT !.marks = @ \cup {call.r.offset}]
    /\ UNCHANGED << installer_vars, blte >>

\* ByteReader::restore(mark) of a Mark that mark() returned
BrRestore ==
    /\ ReaderReady
    /\ \E mark \in call.marks :
         call' = [AfterOp("restore", OpRes([call.r EXCEPT !.offset = mark], TRUE))
                    EXCEPT !.marks = @ \ {mark}]
    /\ UNCHANGED << installer_vars, blte >>

BrParse ==
    /\ ReaderReady
    /\ \E T \in ParsedTypes : call' = AfterOp("parse", parse_T(T, call.r))
    /\ UNCHANGED << installer_vars, blte >>

BrPeek ==
    /\ ReaderReady
    /\ \E T \in ParsedTypes : call' = AfterOp("peek", peek(T, call.r))
    /\ UNCHANGED << installer_vars, blte >>

BrCond ==
    /\ ReaderReady
    /\ \E T \in ParsedTypes, c \in BOOLEAN : call' = AfterOp("cond", cond(T, call.r, c))
    /\ UNCHANGED << installer_vars, blte >>

BrRepeat ==
    /\ ReaderReady
    /\ \E T \in ParsedTypes, count \in 0..MaxSourceLen :
         call' = AfterOp("repeat", repeat(T, call.r, count))
    /\ UNCHANGED << installer_vars, blte >>

BrMany0 ==
    /\ ReaderReady
    /\ \E T \in ParsedTypes : call' = AfterOp("many0", many0(T, call.r))
    /\ UNCHANGED << installer_vars, blte >>

BrMany1 ==
    /\ ReaderReady
    /\ \E T \in ParsedTypes : call' = AfterOp("many1", many1(T, call.r))
    /\ UNCHANGED << installer_vars, blte >>

NextReader ==
    \/ BrNew
    \/ BrTake
    \/ BrTakeN
    \/ BrUint
    \/ BrStringZero
    \/ BrMark
    \/ BrRestore
    \/ BrParse
    \/ BrPeek
    \/ BrCond
    \/ BrRepeat
    \/ BrMany0
    \/ BrMany1

SpecReader == Init /\ [][NextReader]_vars

\* C22: after any sequence of ByteReader operations the offset is within the source,
\* a take that failed has left the offset where it was, and nothing has panicked
C22_CursorWithinSource ==
    call.fn = "ByteReader" =>
        /\ call.r.status = "Ok"
        /\ call.r.offset >= 0
        /\ call.r.offset <= Len(call.r.source)
        /\ (call.op = "take" /\ ~call.some) => call.r.offset = call.before

\* the same for readers on which string_zero was never called on a source without a
\* zero byte or with a byte that is not UTF-8: kept for the part of the claim that
\* the code does meet
WellFormedSource ==
    \A i \in DOMAIN call.r.source :
        /\ call.r.source[i] < 128
        /\ (call.r.source[i] # 0 => \E j \in (i + 1)..Len(call.r.source) : call.r.source[j] = 0)

ReaderOnWellFormedSource ==
    (call.fn = "ByteReader" /\ WellFormedSource) =>
        /\ call.r.status = "Ok"
        /\ call.r.offset <= Len(call.r.source)
        /\ (call.op = "take" /\ ~call.some) => call.r.offset = call.before

\* ------------------------------------------------------------------------
\* hashlittle2 on the keys of its test (crates/lookup3/src/lib.rs)
\* ------------------------------------------------------------------------

MaxKeyLen == 30        \* bytes of a key given to hashlittle2

\* a u32 written with its most significant byte first
U32(b3, b2, b1, b0) == << b0, b1, b2, b3 >>

\* b"Four score and seven years ago"
FourScore ==
    << 70, 111, 117, 114, 32, 115, 99, 111, 114, 101, 32, 97, 110, 100, 32,
       115, 101, 118, 101, 110, 32, 121, 101, 97, 114, 115, 32, 97, 103, 111 >>

\* the first n bytes of the text, the text going round when n is past its end
HashKey(n) == [i \in 1..n |-> FourScore[((i - 1) % Len(FourScore)) + 1]]

\* the initial values given for pc and pb: 0, 1 and 0xdeadbeef
Seeds == {U32(0, 0, 0, 0), U32(0, 0, 0, 1), U32(222, 173, 190, 239)}

\* a key and two initial values are chosen
HashChoose ==
    /\ call.fn = "none"
    /\ \E n \in 0..MaxKeyLen, seed_c \in Seeds, seed_b \in Seeds :
         call' = [fn |-> "key", k |-> HashKey(n), pc |-> seed_c, pb |-> seed_b]
    /\ UNCHANGED << installer_vars, blte >>

\* hashlittle2(k, pc, pb)
HashLittle2 ==
    /\ call.fn = "key"
    /\ call' = [call EXCEPT !.fn = "hashlittle2"] @@
                ("result" :> hashlittle2(call.k, call.pc, call.pb))
    /\ UNCHANGED << installer_vars, blte >>

NextHash ==
    \/ HashChoose
    \/ HashLittle2

SpecHash == Init /\ [][NextHash]_vars

\* hashlittle2 has been called on k with pc = seed_c and pb = seed_b
Hashed(k, seed_c, seed_b) ==
    /\ call.fn = "hashlittle2"
    /\ call.k = k
    /\ call.pc = seed_c
    /\ call.pb = seed_b

\* C23: hashlittle2 gives the values of test_known_values: for the empty key
\* (0xdeadbeef, 0xdeadbeef) with pc = 0, pb = 0 and (0xbd5b7dde, 0xdeadbeef) with
\* pc = 0, pb = 0xdeadbeef; for "Four score and seven years ago"
\* (0x17770551, 0xce7226e6) with pc = 0, pb = 0, (0xe3607cae, 0xbd371de4) with pc = 0,
\* pb = 1, and (0xcd628161, 0x6cbea4b3) with pc = 1, pb = 0
C23_KnownValues ==
    /\ Hashed(<< >>, U32(0, 0, 0, 0), U32(0, 0, 0, 0)) =>
           call.result = << U32(222, 173, 190, 239), U32(222, 173, 190, 239) >>
    /\ Hashed(<< >>, U32(0, 0, 0, 0), U32(222, 173, 190, 239)) =>
           call.result = << U32(189, 91, 125, 222), U32(222, 173, 190, 239) >>
    /\ Hashed(FourScore, U32(0, 0, 0, 0), U32(0, 0, 0, 0)) =>
           call.result = << U32(23, 119, 5, 81), U32(206, 114, 38, 230) >>
    /\ Hashed(FourScore, U32(0, 0, 0, 0), U32(0, 0, 0, 1)) =>
           call.result = << U32(227, 96, 124, 174), U32(189, 55, 29, 228) >>
    /\ Hashed(FourScore, U32(0, 0, 0, 1), U32(0, 0, 0, 0)) =>
           call.result = << U32(205, 98, 129, 97), U32(108, 190, 164, 179) >>

\* the text hashed with pc = 1, pb = 0
C23_Witness ==
    /\ Hashed(FourScore, U32(0, 0, 0, 1), U32(0, 0, 0, 0))
    /\ call.result[1] = U32(205, 98, 129, 97)

\* C24 as stated: hashlittle2 of the empty key with pc = 0xdeadbeef and pb = 0 gives
\* (0xbd5b7dde, 0xdeadbeef)
C24_EmptyKeySeededPc ==
    Hashed(<< >>, U32(222, 173, 190, 239), U32(0, 0, 0, 0)) =>
        call.result = << U32(189, 91, 125, 222), U32(222, 173, 190, 239) >>

\* C24 amended: hashlittle2 of the empty key with pc = 0xdeadbeef and pb = 0 gives
\* (0xbd5b7dde, 0xbd5b7dde): pc goes into both words that are returned
C24_EmptyKeySeededPcBothWords ==
    Hashed(<< >>, U32(222, 173, 190, 239), U32(0, 0, 0, 0)) =>
        call.result = << U32(189, 91, 125, 222), U32(189, 91, 125, 222) >>

\* the empty key hashed with pc = 0xdeadbeef, pb = 0
C24_Witness ==
    /\ Hashed(<< >>, U32(222, 173, 190, 239), U32(0, 0, 0, 0))
    /\ call.result[2] = U32(189, 91, 125, 222)

\* ------------------------------------------------------------------------
\* encode_blte under the specs that ESpec::from_str gives
\* ------------------------------------------------------------------------

MaxPlainLen == 5       \* bytes of the input encoded under a parsed spec
MaxChunkSize == 2      \* size of a block of a parsed spec
MaxChunkCount == 2     \* count of a Chunked block of a parsed spec

PlainInputs == {[i \in 1..n |-> 7 + i] : n \in 0..MaxPlainLen}

\* the blocks written in a spec string: before the final block Chunked blocks, as the
\* final block every block size
WrittenInner == {Raw, ZipOf(9, Bits(15))}

WrittenChunked ==
    {Chunked(size, count) : size \in 1..MaxChunkSize, count \in 0..MaxChunkCount}

WrittenFinalSizes ==
    WrittenChunked \cup {ChunkedGreedy(size) : size \in 0..MaxChunkSize} \cup {Greedy}

WrittenSpecs ==
    {Blocks(blocks, Block(size, inner)) :
        blocks \in {<< >>} \cup {<< Block(s, Raw) >> : s \in WrittenChunked},
        size \in WrittenFinalSizes, inner \in WrittenInner}

\* a block before the final one written with its count, as in "2*0=n"
WrittenBlock(block) ==
    fmt_size(block.size.size) \o << "*" >> \o fmt_uint(block.size.count) \o << "=" >>
    \o ESpec_fmt(block.inner)

WrittenSpec(s) ==
    IF s.blocks # << >>
    THEN << "b", ":", "{" >> \o WrittenBlock(s.blocks[1]) \o << "," >>
         \o Block_fmt(s.final) \o << "}" >>
    ELSE << "b", ":" >> \o Block_fmt(s.final)

\* the spec strings given to from_str
SpecStrings == {WrittenSpec(s) : s \in WrittenSpecs}

\* ESpec::from_str(text) for a spec string and an input to encode
ParseSpec ==
    /\ call.fn = "none"
    /\ \E text \in SpecStrings, input \in PlainInputs :
         call' = [fn |-> "from_str", text |-> text, parsed |-> from_str(text),
                  input |-> input]
    /\ UNCHANGED << installer_vars, blte >>

\* encode_blte(keys, &espec, input) with the espec parsed
EncodeParsed ==
    /\ call.fn = "from_str"
    /\ call.parsed.status = "Ok"
    /\ call' = [call EXCEPT !.fn = "encode_blte"] @@
                ("result" :> encode_blte(TactKeysModel, call.parsed.value, call.input))
    /\ UNCHANGED << installer_vars, blte >>

NextParsedEncode ==
    \/ ParseSpec
    \/ EncodeParsed

SpecParsedEncode == Init /\ [][NextParsedEncode]_vars

\* the decompressed sizes in the chunk table of the container that was returned
DecompressedSizes ==
    [i \in DOMAIN BLTEHeader_read(call.result.bytes).chunks |->
        BLTEHeader_read(call.result.bytes).chunks[i].decompressed_size]

\* what count chunks of size bytes each make of an input of which left bytes are left
Chunking(status, left, sizes) == [status |-> status, left |-> left, sizes |-> sizes]

RECURSIVE CountChunks(_, _, _)
CountChunks(size, count, c) ==
    IF c.status # "Ok" \/ count = 0 THEN c
    ELSE IF c.left < size THEN Chunking("ChunkUnderflow", c.left, c.sizes)
    ELSE CountChunks(size, count - 1, Chunking("Ok", c.left - size, Append(c.sizes, size)))

\* a Greedy block makes one chunk of all that is left
BlockChunks(block, c) ==
    IF c.status # "Ok" THEN c
    ELSE IF block.size.kind = "Greedy" THEN Chunking("Ok", 0, Append(c.sizes, c.left))
    ELSE CountChunks(block.size.size, block.size.count, c)

RECURSIVE BlocksChunks(_, _, _)
BlocksChunks(blocks, i, c) ==
    IF i > Len(blocks) THEN c ELSE BlocksChunks(blocks, i + 1, BlockChunks(blocks[i], c))

\* input left after the final block is LeftoverData
LeftoverChunks(c) ==
    IF c.status = "Ok" /\ c.left > 0 THEN Chunking("LeftoverData", c.left, c.sizes) ELSE c

SpecChunks(espec, input) ==
    LeftoverChunks(BlockChunks(espec.final,
                               BlocksChunks(espec.blocks, 1, Chunking("Ok", Len(input), << >>))))

\* C25: a block Chunked{size, count} gives exactly count chunks of size bytes each, for
\* every count from 0 on, or ChunkUnderflow when fewer than size bytes are left at a
\* chunk; the decompressed sizes of the chunk table are those of the chunks
C25_ChunkedGivesCountChunks ==
    (call.fn = "encode_blte" /\ call.parsed.value.final.size.kind # "ChunkedGreedy") =>
        /\ call.result.status = SpecChunks(call.parsed.value, call.input).status
        /\ call.result.status = "Ok" =>
               DecompressedSizes = SpecChunks(call.parsed.value, call.input).sizes

\* the same for the blocks whose count is 1 or more
NoZeroCount(espec) ==
    /\ espec.final.size.kind = "Chunked" => espec.final.size.count >= 1
    /\ \A i \in DOMAIN espec.blocks : espec.blocks[i].size.count >= 1

ChunkedGivesPositiveCountChunks ==
    (call.fn = "encode_blte" /\ call.parsed.value.final.size.kind # "ChunkedGreedy"
     /\ NoZeroCount(call.parsed.value)) =>
        /\ call.result.status = SpecChunks(call.parsed.value, call.input).status
        /\ call.result.status = "Ok" =>
               DecompressedSizes = SpecChunks(call.parsed.value, call.input).sizes

\* Blocks([Chunked{2, 2}], Greedy = Zip) on five bytes gives chunks of 2, 2 and 1
C25_Witness ==
    /\ call.fn = "encode_blte"
    /\ call.parsed.value = Blocks(<< Block(Chunked(2, 2), Raw) >>,
                                  Block(Greedy, ZipOf(9, Bits(15))))
    /\ Len(call.input) = 5
    /\ call.result.status = "Ok"
    /\ DecompressedSizes = << 2, 2, 1 >>

\* C26: encode_blte returns, Ok or an EncodeError, for every spec that from_str gives
\* and every input
C26_EncodeReturns ==
    call.fn = "encode_blte" =>
        call.result.status \in {"Ok", "ChunkUnderflow", "LeftoverData", "MissingEncryptionKey"}

\* ------------------------------------------------------------------------
\* Bytes written for a download entry
\* ------------------------------------------------------------------------

\* read_part, line 138: the Range header "bytes={offset}-{offset + size}"; both ends
\* of an HTTP byte range are inclusive positions
read_part_range(offset, size) == [first |-> offset, last |-> offset + size]

\* the number of bytes a byte range names
RangeLen(r) == r.last - r.first + 1

\* the write of the log that the idx entry e of short key s points at
WriteOfEntry(i, s, e) ==
    /\ data[i].arch = e.archive_index
    /\ data[i].off = e.offset
    /\ short(data[i].key) = s

\* C27: for every committed download entry, in both fetch modes, the bytes written
\* to data.NNN from slot.offset number exactly total_size = 30 + file_size, so no
\* write passes the end of the reserved region; and the ranged request for
\* (offset, size) names exactly size bytes.
C27_WritesFillReservedRegion ==
    /\ \A b \in Buckets : \A s \in DOMAIN indexes[b] : \A i \in 1..Len(data) :
          WriteOfEntry(i, s, indexes[b][s]) =>
              /\ indexes[b][s].size = FileHeader_SIZE + file_size(data[i].key)
              /\ WriteEnd(data[i]) - data[i].off = indexes[b][s].size
    /\ (pc = "body_copied" /\ cur.mode = "parts") =>
          RangeLen(read_part_range(cur.slot.offset, file_size(cur.key))) = file_size(cur.key)

\* the slice of a whole archive (and a loose file) is written in exactly
\* total_size bytes, and the body of a ranged part is never longer than its range
C27_ArchiveSliceFillsRegion ==
    pc = "body_copied" =>
        /\ cur.mode = "archive" =>
              WriteEnd(data[Len(data)]) = cur.slot.offset + cur.slot.count
        /\ cur.mode = "parts" =>
              data[Len(data)].body
                  <= RangeLen(read_part_range(cur.slot.offset, file_size(cur.key)))

\* two entries are committed to idx, one whose body came as long as its file_size
\* and one whose ranged part came with the byte after it
C27_Witness ==
    /\ pc = "loop"
    /\ \E b1 \in Buckets : \E s1 \in DOMAIN indexes[b1] : \E i \in 1..Len(data) :
          /\ WriteOfEntry(i, s1, indexes[b1][s1])
          /\ data[i].body = file_size(data[i].key)
    /\ \E b2 \in Buckets : \E s2 \in DOMAIN indexes[b2] : \E j \in 1..Len(data) :
          /\ WriteOfEntry(j, s2, indexes[b2][s2])
          /\ data[j].body = file_size(data[j].key) + 1

\* ------------------------------------------------------------------------
\* The idx files a flush writes
\* ------------------------------------------------------------------------

\* the names Indexes::write calls std::fs::write on before bucket upto: one per
\* bucket, dirty or not, under the version the bucket has after the bumps
FlushedNames(versions, upto) == {<< b, versions[b] >> : b \in {x \in Buckets : x < upto}}

\* the idx files the shmem persisted on disk names
ShmemNames(shmem) ==
    IF shmem = None THEN {} ELSE {<< b, shmem[1].index_versions[b] >> : b \in Buckets}

\* a step of CASCBuilder::write that went as far as bucket upto
FlushStep(upto) ==
    /\ hist'.flushes = hist.flushes + 1
    /\ disk_idx' = Indexes_write(disk_idx, indexes, index_versions', upto)

\* C28: a flush creates idx files only under the bumped version names of dirty
\* buckets; it never opens for writing, truncates or rewrites an idx file that the
\* shmem persisted on disk references.
C28_FlushWritesOnlyNewNames ==
    [][\A k \in FlushFailPoints :
          FlushStep(k) =>
              /\ \A n \in FlushedNames(index_versions', k) : index_changed[n[1]]
              /\ FlushedNames(index_versions', k) \cap ShmemNames(disk_shmem) = {}]_vars

\* the second half alone: no idx file named by the shmem on disk is written again
C28_ReferencedIdxNotRewritten ==
    [][\A k \in FlushFailPoints :
          FlushStep(k) => FlushedNames(index_versions', k) \cap ShmemNames(disk_shmem) = {}]_vars

\* what does hold: the file a flush writes for a dirty bucket has a name the shmem
\* on disk does not reference, and a file it writes under a referenced name gets
\* the entries it already held
C28_DirtyBucketsGetNewNames ==
    [][\A k \in FlushFailPoints :
          FlushStep(k) =>
              \A n \in FlushedNames(index_versions', k) :
                  /\ index_changed[n[1]] => n \notin ShmemNames(disk_shmem)
                  /\ (n \in ShmemNames(disk_shmem) /\ n \in DOMAIN disk_idx) =>
                        disk_idx'[n] = disk_idx[n]]_vars

\* a session that loaded the shmem and idx files of an earlier session has flushed
\* with a dirty bucket and with a clean one that holds entries of the earlier session
C28_Witness ==
    /\ sessions = 2
    /\ hist.flushes = 1
    /\ hist.flush_ok
    /\ disk_shmem # None
    /\ \E b \in Buckets : index_changed[b]
    /\ \E b \in Buckets :
          /\ ~index_changed[b]
          /\ hist.loaded_versions[b] > 0
          /\ disk_idx[<< b, hist.loaded_versions[b] >>] # EmptyMap

\* ------------------------------------------------------------------------
\* CDNClient: a fetch over the mirrors (crates/ngdp/src/tact/cdn.rs)
\* ------------------------------------------------------------------------

MaxServers == 2        \* servers of the CDNS record

\* hosts of the CDNS record, and the host given as --cdn-override
Mirrors == {"us", "eu"}
OverrideHost == "ov"
Hosts == Mirrors \cup {OverrideHost}

\* what send() gives for a GET to a host: a success status, another status, or Err
Outcomes == {"success", "status", "transport"}

ServerLists == UNION {[1..n -> Mirrors] : n \in 0..MaxServers}

\* CDNClient::servers, lines 177-179: the override, then the servers
servers(client) ==
    (IF client.cdn_override = None THEN << >> ELSE << client.cdn_override[1] >>)
        \o client.servers

\* CDNClient::cdn_url, lines 181-184: the host a request for server goes to
cdn_url(client, server) ==
    IF client.cdn_override # None THEN client.cdn_override[1] ELSE server

\* CDNClient::read, lines 108-125, from the i-th of servers(): the hosts requested
\* so far are in tried
RECURSIVE read_from(_, _, _, _, _)
read_from(client, net, i, tried, last_error) ==
    IF i > Len(servers(client))
    THEN [status |-> "Err", error |-> last_error, tried |-> tried]
    ELSE IF net[cdn_url(client, servers(client)[i])] = "success"
         THEN [status |-> "Ok", error |-> "none",
               tried |-> Append(tried, cdn_url(client, servers(client)[i]))]
         ELSE read_from(client, net, i + 1,
                        Append(tried, cdn_url(client, servers(client)[i])),
                        IF net[cdn_url(client, servers(client)[i])] = "transport"
                        THEN "transport" ELSE last_error)

read(client, net) == read_from(client, net, 1, << >>, "No CDNs defined")

\* CDNClient::read_part, lines 127-148, from the i-th of servers(): send()? returns
\* the Err of the transport at once
RECURSIVE read_part_from(_, _, _, _)
read_part_from(client, net, i, tried) ==
    IF i > Len(servers(client))
    THEN [status |-> "Err", error |-> "404 fetching file", tried |-> tried]
    ELSE IF net[cdn_url(client, servers(client)[i])] = "transport"
         THEN [status |-> "Err", error |-> "transport",
               tried |-> Append(tried, cdn_url(client, servers(client)[i]))]
         ELSE IF net[cdn_url(client, servers(client)[i])] = "success"
              THEN [status |-> "Ok", error |-> "none",
                    tried |-> Append(tried, cdn_url(client, servers(client)[i]))]
              ELSE read_part_from(client, net, i + 1,
                                  Append(tried, cdn_url(client, servers(client)[i])))

read_part(client, net) == read_part_from(client, net, 1, << >>)

\* a client and the answers of the hosts are chosen
CdnChoose ==
    /\ call.fn = "none"
    /\ \E list \in ServerLists, ov \in {None, Some(OverrideHost)}, net \in [Hosts -> Outcomes] :
         call' = [fn |-> "client", client |-> [servers |-> list, cdn_override |-> ov],
                  net |-> net]
    /\ UNCHANGED << installer_vars, blte >>

\* read(path)
CdnRead ==
    /\ call.fn = "client"
    /\ call' = [call EXCEPT !.fn = "read"] @@ ("result" :> read(call.client, call.net))
    /\ UNCHANGED << installer_vars, blte >>

\* read_part(path, offset, size)
CdnReadPart ==
    /\ call.fn = "client"
    /\ call' = [call EXCEPT !.fn = "read_part"] @@
                ("result" :> read_part(call.client, call.net))
    /\ UNCHANGED << installer_vars, blte >>

NextCdn ==
    \/ CdnChoose
    \/ CdnRead
    \/ CdnReadPart

SpecCdn == Init /\ [][NextCdn]_vars

\* the requests went to the first n mirrors, in their order, and all but the last
\* of them failed
TriedInOrder(tried, mirrors, net) ==
    /\ Len(tried) <= Len(mirrors)
    /\ \A i \in 1..Len(tried) : tried[i] = mirrors[i]
    /\ \A i \in 1..(Len(tried) - 1) : net[tried[i]] # "success"

\* C29: read and read_part try the configured mirrors in order, the override first,
\* and go on to the next mirror after any failure of one (a transport error as well
\* as a non-success status); they return an error only after every mirror has been
\* tried and has failed.
C29_EveryMirrorTried ==
    call.fn \in {"read", "read_part"} =>
        /\ TriedInOrder(call.result.tried, servers(call.client), call.net)
        /\ call.result.status = "Ok" =>
              /\ call.result.tried # << >>
              /\ call.net[call.result.tried[Len(call.result.tried)]] = "success"
        /\ call.result.status = "Err" =>
              /\ Len(call.result.tried) = Len(servers(call.client))
              /\ \A i \in 1..Len(call.result.tried) : call.net[call.result.tried[i]] # "success"

\* what does hold: without an override read does all of that, and read_part does it
\* when no host fails in the transport
C29_WithoutOverride ==
    (/\ call.fn \in {"read", "read_part"}
     /\ call.client.cdn_override = None
     /\ call.fn = "read_part" => \A h \in Hosts : call.net[h] # "transport") =>
        /\ TriedInOrder(call.result.tried, servers(call.client), call.net)
        /\ call.result.status = "Ok" =>
              call.net[call.result.tried[Len(call.result.tried)]] = "success"
        /\ call.result.status = "Err" =>
              /\ Len(call.result.tried) = Len(servers(call.client))
              /\ \A i \in 1..Len(call.result.tried) : call.net[call.result.tried[i]] # "success"

\* read_part was called with two mirrors, the first of which fails in the transport
\* while the second would serve the file
C29_Witness ==
    /\ call.fn = "read_part"
    /\ call.client.cdn_override = None
    /\ Len(call.client.servers) = 2
    /\ call.net[call.client.servers[1]] = "transport"
    /\ call.net[call.client.servers[2]] = "success"

\* read was called with an override that fails and a mirror that would serve the file
C29_WitnessOverride ==
    /\ call.fn = "read"
    /\ call.client.cdn_override # None
    /\ call.client.servers # << >>
    /\ call.net[OverrideHost] = "status"
    /\ call.net[call.client.servers[1]] = "success"

\* ------------------------------------------------------------------------
\* install_inner: parts of an archive, or the whole archive (lines 364-424)
\* ------------------------------------------------------------------------

MaxPlanned == 3        \* archives of the download plan
MaxEntries == 3        \* wanted entries of one archive

\* Sizes are in units of 1_000_000 bytes, bandwidths in 1_000_000 bytes a second,
\* times in seconds; the f64 quotients are compared as exact fractions.

\* line 378: the 256_000_000.0 bytes of archive_est
ARCHIVE_EST_SIZE == 256

ArchiveSizes == {10, 256, 300}
EntriesSizes == {1, 9, 200}
Bandwidths == {0, 1, 10}     \* reader.avg_bandwidth() of a whole-archive download
Elapsed == {0, 1}            \* start.elapsed() of one request

\* an archive of the plan: archive_sizes[archive], entries.len(), the sum of file_size
PlannedArchives ==
    {a \in [archive_size : ArchiveSizes, len : 1..MaxEntries, entries_size : EntriesSizes] :
        a.entries_size <= a.archive_size}

\* lines 365-368: the running sums at the start of the loop
NoEstimates == [bulk_bandwidth_sum |-> 0, num_bulk_dls |-> 0, wait_time |-> 0, num_reqs |-> 0]

\* parts_est < archive_est with bandwidth = bulk_bandwidth_sum / num_bulk_dls and
\* req_overhead = wait_time / num_reqs, for an archive_est over size bytes: both
\* sides multiplied by num_reqs * bulk_bandwidth_sum
parts_cheaper(est, archive, size) ==
    archive.len * est.wait_time * est.bulk_bandwidth_sum
            + archive.entries_size * est.num_bulk_dls * est.num_reqs
        < est.wait_time * est.bulk_bandwidth_sum
            + size * est.num_bulk_dls * est.num_reqs

\* lines 375-391: do_parts. 0.0 / 0 is NaN and a comparison with NaN is false; with
\* a bandwidth of 0.0 both estimates are infinite or NaN and the comparison is false
do_parts(est, archive) ==
    IF est.num_bulk_dls = 0 \/ est.num_reqs = 0 THEN FALSE
    ELSE IF est.bulk_bandwidth_sum = 0 THEN FALSE
    ELSE parts_cheaper(est, archive, ARCHIVE_EST_SIZE)

\* install_inner reaches the loop over the archives
PlanStart ==
    /\ call.fn = "none"
    /\ call' = [fn |-> "install_inner", est |-> NoEstimates, step |-> 0]
    /\ UNCHANGED << installer_vars, blte >>

\* lines 393-404: the archive is fetched by parts, one request for each entry
FetchParts ==
    /\ call.fn = "install_inner"
    /\ call.step < MaxPlanned
    /\ \E archive \in PlannedArchives, e \in Elapsed :
         /\ do_parts(call.est, archive)
         /\ call' = [fn |-> "install_inner", step |-> call.step + 1,
                     est |-> [call.est EXCEPT !.wait_time = @ + archive.len * e,
                                              !.num_reqs = @ + archive.len],
                     before |-> call.est, archive |-> archive, do_parts |-> TRUE]
    /\ UNCHANGED << installer_vars, blte >>

\* lines 405-424: the whole archive is fetched with one request and sliced
FetchWhole ==
    /\ call.fn = "install_inner"
    /\ call.step < MaxPlanned
    /\ \E archive \in PlannedArchives, e \in Elapsed, bw \in Bandwidths :
         /\ ~do_parts(call.est, archive)
         /\ call' = [fn |-> "install_inner", step |-> call.step + 1,
                     est |-> [call.est EXCEPT !.wait_time = @ + e,
                                              !.num_reqs = @ + 1,
                                              !.bulk_bandwidth_sum = @ + bw,
                                              !.num_bulk_dls = @ + 1],
                     before |-> call.est, archive |-> archive, do_parts |-> FALSE]
    /\ UNCHANGED << installer_vars, blte >>

NextPlan ==
    \/ PlanStart
    \/ FetchParts
    \/ FetchWhole

SpecPlan == Init /\ [][NextPlan]_vars

\* an archive has been planned with a bandwidth and a request overhead at hand
PlannedWithEstimates ==
    /\ call.fn = "install_inner"
    /\ call.step > 0
    /\ call.before.num_bulk_dls > 0
    /\ call.before.num_reqs > 0
    /\ call.before.bulk_bandwidth_sum > 0

\* C30: once bandwidth and request-overhead estimates exist, an archive is fetched
\* by ranged parts if and only if n_entries * request_overhead + entries_size /
\* bandwidth < request_overhead + archive_size / bandwidth, archive_size being the
\* size of that archive; otherwise the whole archive is fetched and sliced.
C30_PartsIffCheaperThanArchive ==
    PlannedWithEstimates =>
        (call.do_parts <=> parts_cheaper(call.before, call.archive, call.archive.archive_size))

\* what does hold: the comparison is with the cost of an archive of 256_000_000
\* bytes, whatever the size of the archive
C30_PartsIffCheaperThanFixedSize ==
    PlannedWithEstimates =>
        (call.do_parts <=> parts_cheaper(call.before, call.archive, ARCHIVE_EST_SIZE))

\* with estimates at hand, an archive for which the two comparisons differ has been
\* planned: its parts cost more than the archive itself but less than 256_000_000 bytes
C30_Witness ==
    /\ PlannedWithEstimates
    /\ ~parts_cheaper(call.before, call.archive, call.archive.archive_size)
    /\ parts_cheaper(call.before, call.archive, ARCHIVE_EST_SIZE)

====
